---- MODULE Spec2Model ----
(***************************************************************************)
(* Mystic Duel server: the match engine (Card, ServerGame) as a state      *)
(* machine.  The engine's methods are pure operators over a game record    *)
(* (the fields of one ServerGame object); each action is one call of the   *)
(* engine's interface (initPlayerDeck, playCard, processAttack, endTurn).  *)
(* Indexes are 0-based as in the source; sequences are 1-based, so the     *)
(* card at source index i is s[i + 1].                                     *)
(* The matchmaking server (the socket handlers) is a second state machine  *)
(* over its own variables, each action one handler run to completion.      *)
(***************************************************************************)
EXTENDS Integers, Sequences, FiniteSets, TLC

VARIABLES
    players,      \* ServerGame.players: [0..1 -> player record]
    currentTurn,  \* ServerGame.currentTurn
    turnNumber,   \* ServerGame.turnNumber
    totalTurns,   \* ServerGame.totalTurns
    gameOver,     \* ServerGame.gameOver
    winner,       \* ServerGame.winner (NullWinner for null)
    gameLog,      \* ServerGame.gameLog
    nextId,       \* the next fresh Card id (the source draws ids at random)
    lastCall,     \* history: the last interface call, its result, the check that refused it
    calls,        \* history: the number of state-changing calls, or of messages served, since Init
    matchmakingQueue,  \* server: the ids of the sockets waiting, oldest first
    activeGames,       \* server: the Map gameId -> game, in insertion order
    sockets,           \* io.sockets.sockets: each socket id "new", "connected" or "gone"
    outbox             \* history: the messages the last handler emitted, in order

lobbyVars == <<matchmakingQueue, activeGames, sockets, outbox>>

vars == <<players, currentTurn, turnNumber, totalTurns, gameOver, winner,
          gameLog, nextId, lastCall, calls, lobbyVars>>

-----------------------------------------------------------------------------
(* Program constants *)

StartHealth == 30
HandLimit == 10
FieldLimit == 7
ManaCap == 10
LogLimit == 20
InitialHand == 5
NullWinner == -1
EnrageBonus == 2
BattlecryDamage == 2
AoeDamage == 2

(* Bounds of the model *)

MaxCalls == 2
MaxShuffle == 3
MaxSockets == 3     \* socket ids are 1..MaxSockets, each connecting once
MaxServed == 5      \* messages served after the connections

-----------------------------------------------------------------------------
(* Sequence helpers *)

Min(a, b) == IF a <= b THEN a ELSE b
Max(a, b) == IF a >= b THEN a ELSE b
Abs(a) == IF a < 0 THEN 0 - a ELSE a

\* Array.prototype.splice(i, 1) at 0-based index i
RemoveAt(s, i) == [k \in 1..(Len(s) - 1) |-> IF k <= i THEN s[k] ELSE s[k + 1]]

Other(p) == 1 - p

-----------------------------------------------------------------------------
(* Ability text.  The source matches abilities as free text                *)
(* (String.includes, a /\d+/ match and parseInt); strings are atoms here,   *)
(* so each ability the model uses is listed with the words the source      *)
(* looks for in it and the first number in it (-1: no digit).              *)

AbilityWords(a) ==
    CASE a = "Deal 2 damage"         -> {"Deal"}
      [] a = "Deal 3 damage"         -> {"Deal"}
      [] a = "Deal 4 damage"         -> {"Deal"}
      [] a = "Deal 6 damage"         -> {"Deal"}
      [] a = "Deal 3 damage, Freeze" -> {"Deal", "Freeze"}
      [] a = "Restore 3 health"      -> {"Restore"}
      [] a = "Restore 5 health"      -> {"Restore"}
      [] a = "Draw a card"           -> {"Draw"}
      [] a = "Draw 2 cards"          -> {"Draw"}
      [] a = "Draw 3 cards"          -> {"Draw"}
      [] a = "Deathrattle: Draw"     -> {"Draw"}
      [] a = "All allies +1/+1"      -> {"+1/+1"}
      [] a = "All allies +2/+2"      -> {"+2/+2"}
      [] a = "Lifesteal"             -> {"Lifesteal"}
      [] a = "Lifelink"              -> {"Lifelink"}
      [] a = "First Strike"          -> {"First Strike"}
      [] a = "Freeze enemy"          -> {"Freeze"}
      [] OTHER                       -> {}

Includes(a, w) == w \in AbilityWords(a)

\* parseInt(ability.match(/\d+/)[0])
AbilityNumber(a) ==
    CASE a = "Deal 2 damage"         -> 2
      [] a = "Deal 3 damage"         -> 3
      [] a = "Deal 4 damage"         -> 4
      [] a = "Deal 6 damage"         -> 6
      [] a = "Deal 3 damage, Freeze" -> 3
      [] a = "Restore 3 health"      -> 3
      [] a = "Restore 5 health"      -> 5
      [] a = "Draw 2 cards"          -> 2
      [] a = "Draw 3 cards"          -> 3
      [] a = "All allies +1/+1"      -> 1
      [] a = "All allies +2/+2"      -> 2
      [] OTHER                       -> -1

-----------------------------------------------------------------------------
(* Card *)

\* A card template as the deck data gives it; the status fields a template
\* leaves out read as FALSE (the constructor's ?? defaults).  A spell has no
\* attack and no health in the data; they are 0 here and never read.
Template(name, cost, type, attack, health, ability) ==
    [id |-> 0, name |-> name, cost |-> cost, type |-> type, attack |-> attack,
     health |-> health, maxHealth |-> 0, ability |-> ability,
     tapped |-> FALSE, frozen |-> FALSE, hasAttackedThisTurn |-> FALSE,
     doubleStrikeUsed |-> FALSE, windfuryUsed |-> FALSE,
     canOnlyAttackCreatures |-> FALSE, stealth |-> FALSE,
     divineShield |-> FALSE, spellShield |-> FALSE, vigilance |-> FALSE,
     immune |-> FALSE, tempImmune |-> FALSE, taunt |-> FALSE,
     instantKill |-> FALSE, enraged |-> FALSE,
     attacksSinceReset |-> 0]   \* history: accepted attacks since the last resetForTurn

\* new Card(template), with the fresh id
NewCard(template, id) ==
    [template EXCEPT
        !.id = id,
        !.maxHealth = template.health,
        !.taunt = @ \/ template.ability = "Taunt",
        !.vigilance = @ \/ template.ability = "Vigilance",
        !.stealth = @ \/ template.ability = "Stealth",
        !.divineShield = @ \/ template.ability = "Divine Shield",
        !.spellShield = @ \/ template.ability = "Spell Shield"]

\* resetForTurn untapping a frozen creature as well (a faulty variant, kept
\* to compare resetForTurn against)
resetForTurnThaws(c) ==
    [c EXCEPT
        !.frozen = FALSE,
        !.tapped = FALSE,
        !.hasAttackedThisTurn = FALSE,
        !.doubleStrikeUsed = FALSE,
        !.windfuryUsed = FALSE,
        !.canOnlyAttackCreatures = FALSE,
        !.tempImmune = FALSE,
        !.health = IF c.ability = "Regenerate" THEN c.maxHealth ELSE @,
        !.attacksSinceReset = 0]

\* Card.resetForTurn
resetForTurn(c) ==
    [c EXCEPT
        !.frozen = FALSE,
        !.tapped = IF c.frozen THEN @ ELSE FALSE,
        !.hasAttackedThisTurn = FALSE,
        !.doubleStrikeUsed = FALSE,
        !.windfuryUsed = FALSE,
        !.canOnlyAttackCreatures = FALSE,
        !.tempImmune = FALSE,
        !.health = IF c.ability = "Regenerate" THEN c.maxHealth ELSE @,
        !.attacksSinceReset = 0]

\* takeDamage with a Divine Shield that absorbs the hit and stays (a faulty
\* variant, kept to compare takeDamage against)
takeDamageShieldStays(c, amount) ==
    IF amount <= 0 THEN [card |-> c, dealt |-> 0]
    ELSE IF c.immune \/ c.tempImmune THEN [card |-> c, dealt |-> 0]
    ELSE IF c.divineShield THEN [card |-> c, dealt |-> 0]
    ELSE [card |-> [c EXCEPT !.health = c.health - Min(amount, c.health)],
          dealt |-> Min(amount, c.health)]

\* takeDamage with Enrage triggering on every hit survived (a faulty variant,
\* kept to compare takeDamage against)
takeDamageEnrageAgain(c, amount) ==
    IF amount <= 0 THEN [card |-> c, dealt |-> 0]
    ELSE IF c.immune \/ c.tempImmune THEN [card |-> c, dealt |-> 0]
    ELSE IF c.divineShield
    THEN [card |-> [c EXCEPT !.divineShield = FALSE], dealt |-> 0]
    ELSE [card |-> [c EXCEPT !.health = c.health - Min(amount, c.health),
                             !.attack = IF c.ability = "Enrage" /\ c.health > amount
                                        THEN @ + EnrageBonus ELSE @,
                             !.enraged = @ \/ (c.ability = "Enrage" /\ c.health > amount)],
          dealt |-> Min(amount, c.health)]

\* Card.takeDamage: the card afterwards and the damage returned
takeDamage(c, amount) ==
    IF amount <= 0 THEN [card |-> c, dealt |-> 0]
    ELSE IF c.immune \/ c.tempImmune THEN [card |-> c, dealt |-> 0]
    ELSE IF c.divineShield
    THEN [card |-> [c EXCEPT !.divineShield = FALSE], dealt |-> 0]
    ELSE LET actualDamage == Min(amount, c.health)
             health == c.health - actualDamage
             enrage == c.ability = "Enrage" /\ actualDamage > 0 /\ health > 0
                       /\ ~c.enraged
         IN [card |-> [c EXCEPT !.health = health,
                                !.attack = IF enrage THEN @ + EnrageBonus ELSE @,
                                !.enraged = @ \/ enrage],
             dealt |-> actualDamage]

\* Card.canAttack
canAttack(c) == ~c.tapped /\ ~c.frozen /\ ~c.hasAttackedThisTurn

\* markAttacked with Windfury and Double Strike readying the creature after
\* every attack (a faulty variant, kept to compare markAttacked against)
markAttackedAlwaysReady(c) ==
    IF c.ability \in {"Windfury", "Double Strike"}
    THEN [c EXCEPT !.tapped = FALSE, !.hasAttackedThisTurn = FALSE,
                   !.windfuryUsed = TRUE, !.doubleStrikeUsed = TRUE]
    ELSE [c EXCEPT !.hasAttackedThisTurn = TRUE,
                   !.tapped = IF c.vigilance THEN @ ELSE TRUE]

\* Card.markAttacked
markAttacked(c) ==
    LET c1 == [c EXCEPT !.hasAttackedThisTurn = TRUE,
                        !.tapped = IF c.vigilance THEN @ ELSE TRUE]
    IN IF c.ability = "Windfury"
       THEN IF ~c.windfuryUsed
            THEN [c1 EXCEPT !.tapped = FALSE, !.hasAttackedThisTurn = FALSE,
                            !.windfuryUsed = TRUE]
            ELSE [c1 EXCEPT !.hasAttackedThisTurn = TRUE,
                            !.tapped = IF c.vigilance THEN @ ELSE TRUE]
       ELSE IF c.ability = "Double Strike" /\ ~c.doubleStrikeUsed
       THEN [c1 EXCEPT !.doubleStrikeUsed = TRUE, !.hasAttackedThisTurn = FALSE,
                       !.tapped = FALSE]
       ELSE IF c.ability = "Double Strike" /\ c.doubleStrikeUsed
       THEN [c1 EXCEPT !.hasAttackedThisTurn = TRUE,
                       !.tapped = IF c.vigilance THEN @ ELSE TRUE]
       ELSE c1

-----------------------------------------------------------------------------
(* ServerGame: the constructor *)

NewPlayer(mana) ==
    [health |-> StartHealth, maxHealth |-> StartHealth, mana |-> mana,
     maxMana |-> mana, hand |-> <<>>, deck |-> <<>>, field |-> <<>>,
     graveyard |-> <<>>, spellsCount |-> 0, spellPower |-> 0]

NewGame ==
    [players |-> [i \in 0..1 |-> IF i = 0 THEN NewPlayer(1) ELSE NewPlayer(0)],
     currentTurn |-> 0, turnNumber |-> 1, totalTurns |-> 1,
     gameOver |-> FALSE, winner |-> NullWinner, gameLog |-> <<>>,
     nextId |-> 1]

\* addLog without the cut to the last 20 entries (a faulty variant, kept to
\* compare addLog against)
addLogUnbounded(g, text, name) ==
    [g EXCEPT !.gameLog = Append(@, [message |-> <<text, name>>, turn |-> g.turnNumber,
                                     activePlayer |-> g.currentTurn + 1])]

\* ServerGame.addLog (the timestamp is left out)
addLog(g, text, name) ==
    LET entry == [message |-> <<text, name>>, turn |-> g.turnNumber,
                  activePlayer |-> g.currentTurn + 1]
        log == Append(g.gameLog, entry)
    IN [g EXCEPT !.gameLog = IF Len(log) > LogLimit
                             THEN SubSeq(log, Len(log) - LogLimit + 1, Len(log))
                             ELSE log]

\* drawCard discarding the top card of the deck when the hand is full (a
\* faulty variant, kept to compare drawCard against)
drawCardBurns(g, p) ==
    IF Len(g.players[p].deck) > 0
    THEN IF Len(g.players[p].hand) < HandLimit
         THEN addLog([g EXCEPT !.players[p].deck = Tail(@),
                               !.players[p].hand = Append(@, Head(g.players[p].deck))],
                     "drew", Head(g.players[p].deck).name)
         ELSE [g EXCEPT !.players[p].deck = Tail(@)]
    ELSE g

\* ServerGame.drawCard
drawCard(g, p) ==
    LET player == g.players[p]
    IN IF Len(player.deck) > 0 /\ Len(player.hand) < HandLimit
       THEN LET card == Head(player.deck)
            IN addLog([g EXCEPT !.players[p].deck = Tail(player.deck),
                                !.players[p].hand = Append(player.hand, card)],
                      "drew", card.name)
       ELSE g

\* n successive drawCard calls
RECURSIVE drawCards(_, _, _)
drawCards(g, p, n) == IF n <= 0 THEN g ELSE drawCards(drawCard(g, p), p, n - 1)

\* checkGameOver without the test of gameOver (a faulty variant, kept to
\* compare checkGameOver against)
checkGameOverAgain(g) ==
    IF g.players[0].health <= 0
    THEN addLog([g EXCEPT !.gameOver = TRUE, !.winner = 1], "wins!", "Player 2")
    ELSE IF g.players[1].health <= 0
    THEN addLog([g EXCEPT !.gameOver = TRUE, !.winner = 0], "wins!", "Player 1")
    ELSE g

\* ServerGame.checkGameOver
checkGameOver(g) ==
    IF g.players[0].health <= 0 /\ ~g.gameOver
    THEN addLog([g EXCEPT !.gameOver = TRUE, !.winner = 1], "wins!", "Player 2")
    ELSE IF g.players[1].health <= 0 /\ ~g.gameOver
    THEN addLog([g EXCEPT !.gameOver = TRUE, !.winner = 0], "wins!", "Player 1")
    ELSE g

\* ServerGame.updateSpellPower
SpellPowerOf(field) ==
    Cardinality({k \in 1..Len(field) : field[k].ability = "Spell Power +1"})

\* updateSpellPower recomputing the first player's spell power only (a faulty
\* variant, kept to compare updateSpellPower against)
updateSpellPowerOfFirst(g) ==
    [g EXCEPT !.players[0].spellPower = SpellPowerOf(g.players[0].field)]

updateSpellPower(g) ==
    [g EXCEPT !.players[0].spellPower = SpellPowerOf(g.players[0].field),
              !.players[1].spellPower = SpellPowerOf(g.players[1].field)]

-----------------------------------------------------------------------------
(* Arguments that may be absent or of several types *)

Omitted == [tag |-> "omitted", n |-> 0]     \* argument left out (undefined)
Null == [tag |-> "null", n |-> 0]
Opponent == [tag |-> "opponent", n |-> 0]   \* the string 'opponent'
Num(n) == [tag |-> "number", n |-> n]

-----------------------------------------------------------------------------
(* Log helpers *)

\* addLog under a condition
logIf(cond, g, text, name) == IF cond THEN addLog(g, text, name) ELSE g

\* successive addLog calls, msgs a sequence of <<text, name>>
RECURSIVE addLogs(_, _)
addLogs(g, msgs) ==
    IF msgs = <<>> THEN g
    ELSE addLogs(addLog(g, Head(msgs)[1], Head(msgs)[2]), Tail(msgs))

Say(cond, text, name) == IF cond THEN << <<text, name>> >> ELSE <<>>

-----------------------------------------------------------------------------
(* ServerGame: death sweep *)

\* checkCreatureDeaths, 'Deathrattle: Draw'
deathrattleDraw(g, p, creature) ==
    IF creature.ability = "Deathrattle: Draw"
    THEN addLog(drawCard(g, p), "Deathrattle: Drew a card!", "")
    ELSE g

\* Resurrect putting the new card in the hand whatever the hand holds (a
\* faulty variant, kept to compare the sweep against)
resurrectAlways(g, p, creature) ==
    IF creature.ability = "Resurrect"
    THEN addLog([g EXCEPT
                   !.players[p].hand =
                       Append(@, NewCard(Template(creature.name, creature.cost,
                                                  creature.type, creature.attack,
                                                  creature.maxHealth, creature.ability),
                                         g.nextId)),
                   !.nextId = @ + 1],
                "returns to hand!", creature.name)
    ELSE g

\* checkCreatureDeaths, 'Resurrect': the new Card is built (and takes an id)
\* whether or not the hand has room for it
resurrect(g, p, creature) ==
    IF creature.ability = "Resurrect"
    THEN IF Len(g.players[p].hand) < HandLimit
         THEN addLog([g EXCEPT
                        !.players[p].hand =
                            Append(@, NewCard(Template(creature.name, creature.cost,
                                                       creature.type, creature.attack,
                                                       creature.maxHealth, creature.ability),
                                              g.nextId)),
                        !.nextId = @ + 1],
                     "returns to hand!", creature.name)
         ELSE [g EXCEPT !.nextId = @ + 1]
    ELSE g

\* the filter callback without the push to the graveyard (a faulty variant,
\* kept to compare destroy against)
destroyForgets(g, p, creature) ==
    resurrect(deathrattleDraw(addLog(g, "was destroyed!", creature.name), p, creature),
              p, creature)

\* the filter callback of checkCreatureDeaths on a creature with health <= 0
destroy(g, p, creature) ==
    [resurrect(deathrattleDraw(addLog(g, "was destroyed!", creature.name), p, creature),
               p, creature)
        EXCEPT !.players[p].graveyard = Append(@, creature)]

\* the filter of checkCreatureDeaths with the dead creatures left on the
\* field (a faulty variant, kept to compare the sweep against)
RECURSIVE sweepFieldKeepsDead(_, _, _, _)
sweepFieldKeepsDead(g, p, k, kept) ==
    IF k > Len(g.players[p].field)
    THEN [g EXCEPT !.players[p].field = kept]
    ELSE IF g.players[p].field[k].health <= 0
    THEN sweepFieldKeepsDead(destroy(g, p, g.players[p].field[k]), p, k + 1,
                             Append(kept, g.players[p].field[k]))
    ELSE sweepFieldKeepsDead(g, p, k + 1, Append(kept, g.players[p].field[k]))

\* the Array.filter of checkCreatureDeaths, creature by creature: k is the
\* 1-based position in the field being filtered, kept the creatures the
\* callback has returned true for
RECURSIVE sweepField(_, _, _, _)
sweepField(g, p, k, kept) ==
    IF k > Len(g.players[p].field)
    THEN [g EXCEPT !.players[p].field = kept]
    ELSE IF g.players[p].field[k].health <= 0
    THEN sweepField(destroy(g, p, g.players[p].field[k]), p, k + 1, kept)
    ELSE sweepField(g, p, k + 1, Append(kept, g.players[p].field[k]))

\* checkCreatureDeaths sweeping the first player's field only (a faulty
\* variant, kept to compare checkCreatureDeaths against)
checkCreatureDeathsOfFirst(g) ==
    updateSpellPower(sweepField(g, 0, 1, <<>>))

\* ServerGame.checkCreatureDeaths
checkCreatureDeaths(g) ==
    updateSpellPower(sweepField(sweepField(g, 0, 1, <<>>), 1, 1, <<>>))

-----------------------------------------------------------------------------
(* ServerGame: playing a card *)

\* ServerGame.getCardCost
getCardCost(g, card, p) ==
    IF card.ability = "Costs less per spell"
    THEN Max(0, card.cost - g.players[p].spellsCount)
    ELSE card.cost

\* 'AOE damage': one creature of the forEach, r its takeDamage(2)
aoeHit(g, opp, k, r) ==
    logIf(r.dealt > 0, [g EXCEPT !.players[opp].field[k] = r.card],
          "takes AOE damage!", r.card.name)

\* the forEach of 'AOE damage' over the opposing field, creature by creature
RECURSIVE aoeDamage(_, _, _)
aoeDamage(g, opp, k) ==
    IF k > Len(g.players[opp].field) THEN g
    ELSE aoeDamage(aoeHit(g, opp, k, takeDamage(g.players[opp].field[k], AoeDamage)),
                   opp, k + 1)

\* the loop of 'Summon skeletons' without the test of the field's length (a
\* faulty variant, kept to compare summonSkeletons against)
RECURSIVE summonSkeletonsUnbounded(_, _, _)
summonSkeletonsUnbounded(g, p, i) ==
    IF i < 2
    THEN summonSkeletonsUnbounded(
            [g EXCEPT !.players[p].field =
                          Append(@, [NewCard(Template("Skeleton", 0, "creature", 1, 1, ""),
                                             g.nextId) EXCEPT !.tapped = TRUE]),
                      !.nextId = @ + 1],
            p, i + 1)
    ELSE g

\* the loop of 'Summon skeletons': i tokens summoned so far
RECURSIVE summonSkeletons(_, _, _)
summonSkeletons(g, p, i) ==
    IF i < 2 /\ Len(g.players[p].field) < FieldLimit
    THEN summonSkeletons(
            [g EXCEPT !.players[p].field =
                          Append(@, [NewCard(Template("Skeleton", 0, "creature", 1, 1, ""),
                                             g.nextId) EXCEPT !.tapped = TRUE]),
                      !.nextId = @ + 1],
            p, i + 1)
    ELSE g

\* ServerGame.handleEnterPlayAbilities
handleEnterPlayAbilities(g, p, card) ==
    IF card.ability \in {"Draw a card", "Draw 2 cards", "Draw 3 cards"}
    THEN drawCards(g, p, IF AbilityNumber(card.ability) < 0 THEN 1
                         ELSE AbilityNumber(card.ability))
    ELSE IF card.ability = "Battlecry: Damage"
    THEN checkGameOver(addLog([g EXCEPT !.players[Other(p)].health = @ - BattlecryDamage],
                              "Battlecry deals 2 damage!", card.name))
    ELSE IF card.ability = "AOE damage"
    THEN checkCreatureDeaths(aoeDamage(g, Other(p), 1))
    ELSE IF card.ability = "Summon skeletons"
    THEN addLog(summonSkeletons(g, p, 0), "Summoned 2 Skeleton tokens!", "")
    ELSE IF card.ability = "Spell Power +1"
    THEN updateSpellPower(g)
    ELSE g

\* playCreature's flags without the restriction of a Rush creature to
\* creatures (a faulty variant, kept to compare enterPlay against)
enterPlayRushFree(card) ==
    [card EXCEPT
        !.tapped = card.ability \notin {"Rush", "Quick", "Charge", "Haste"},
        !.frozen = FALSE,
        !.hasAttackedThisTurn = FALSE,
        !.doubleStrikeUsed = FALSE,
        !.vigilance = IF card.ability = "Vigilance" THEN TRUE ELSE @,
        !.taunt = IF card.ability = "Taunt" THEN TRUE ELSE @,
        !.divineShield = IF card.ability = "Divine Shield" THEN TRUE ELSE @,
        !.stealth = IF card.ability = "Stealth" THEN TRUE ELSE @,
        !.spellShield = IF card.ability = "Spell Shield" THEN TRUE ELSE @]

\* ServerGame.playCreature: the flags a card enters play with
enterPlay(card) ==
    [card EXCEPT
        !.tapped = card.ability \notin {"Rush", "Quick", "Charge", "Haste"},
        !.frozen = FALSE,
        !.hasAttackedThisTurn = FALSE,
        !.doubleStrikeUsed = FALSE,
        !.canOnlyAttackCreatures = IF card.ability = "Rush" THEN TRUE ELSE @,
        !.vigilance = IF card.ability = "Vigilance" THEN TRUE ELSE @,
        !.taunt = IF card.ability = "Taunt" THEN TRUE ELSE @,
        !.divineShield = IF card.ability = "Divine Shield" THEN TRUE ELSE @,
        !.stealth = IF card.ability = "Stealth" THEN TRUE ELSE @,
        !.spellShield = IF card.ability = "Spell Shield" THEN TRUE ELSE @]

\* ServerGame.playCreature
playCreature(g, p, card) ==
    updateSpellPower(
        handleEnterPlayAbilities([g EXCEPT !.players[p].field = Append(@, enterPlay(card))],
                                 p, enterPlay(card)))

\* handleSpell, a damage spell on the creature at 1-based position k of the
\* opposing field, r its takeDamage(damage)
spellHit(g, opp, k, r, freeze, spell) ==
    checkCreatureDeaths(
        logIf(freeze,
              addLog([g EXCEPT !.players[opp].field[k] =
                                   [r.card EXCEPT !.frozen = IF freeze THEN TRUE ELSE @]],
                     "deals damage to", spell.name),
              "is frozen!", r.card.name))

\* the 'Deal' branch without the game-over check after a hit on the opposing
\* player (a faulty variant, kept to compare handleSpell against)
dealDamageUnchecked(g, p, card, target, damage) ==
    IF target = Opponent \/ target = Omitted \/ target = Num(-1)
    THEN addLog([g EXCEPT !.players[Other(p)].health = @ - damage],
                "deals damage to opponent!", card.name)
    ELSE IF target.tag = "number" /\ target.n >= 0
            /\ target.n < Len(g.players[Other(p)].field)
    THEN spellHit(g, Other(p), target.n + 1,
                  takeDamage(g.players[Other(p)].field[target.n + 1], damage),
                  Includes(card.ability, "Freeze"), card)
    ELSE g

\* handleSpell, the 'Deal' branch
dealDamage(g, p, card, target, damage) ==
    IF target = Opponent \/ target = Omitted \/ target = Num(-1)
    THEN checkGameOver(addLog([g EXCEPT !.players[Other(p)].health = @ - damage],
                              "deals damage to opponent!", card.name))
    ELSE IF target.tag = "number" /\ target.n >= 0
            /\ target.n < Len(g.players[Other(p)].field)
    THEN spellHit(g, Other(p), target.n + 1,
                  takeDamage(g.players[Other(p)].field[target.n + 1], damage),
                  Includes(card.ability, "Freeze"), card)
    ELSE g

\* handleSpell, 'All allies +1/+1' and 'All allies +2/+2'
buffAllies(g, p, buff) ==
    addLog([g EXCEPT !.players[p].field =
                         [k \in 1..Len(@) |-> [@[k] EXCEPT !.attack = @ + buff,
                                                           !.health = @ + buff,
                                                           !.maxHealth = @ + buff]]],
           "All allies get a buff!", "")

\* ServerGame.handleSpell
handleSpell(g, p, card, target) ==
    IF Includes(card.ability, "Deal")
    THEN dealDamage(g, p, card, target,
                    AbilityNumber(card.ability) + g.players[p].spellPower)
    ELSE IF Includes(card.ability, "Restore")
    THEN addLog([g EXCEPT !.players[p].health =
                              Min(g.players[p].maxHealth, @ + AbilityNumber(card.ability))],
                "Restored health!", "")
    ELSE IF card.ability = "All allies +1/+1" \/ card.ability = "All allies +2/+2"
    THEN buffAllies(g, p, IF Includes(card.ability, "+2/+2") THEN 2 ELSE 1)
    ELSE IF Includes(card.ability, "Draw")
    THEN drawCards(g, p, IF AbilityNumber(card.ability) < 0 THEN 2
                         ELSE AbilityNumber(card.ability))
    ELSE g

\* playCard, once the card has left the hand and the mana is spent
resolveCard(g, p, card, target) ==
    IF card.type = "creature" THEN playCreature(g, p, card)
    ELSE IF card.type = "spell"
    THEN [handleSpell([g EXCEPT !.players[p].spellsCount = @ + 1], p, card, target)
             EXCEPT !.players[p].graveyard = Append(@, card)]
    ELSE g

\* playCard charging the mana of a creature it refuses for want of room (a
\* faulty variant, kept to compare payAndPlay against)
payAndPlayChargesRefused(g, p, cardIndex, card, target, cost) ==
    IF cost > g.players[p].mana THEN [g |-> g, ret |-> FALSE]
    ELSE IF card.type = "creature" /\ Len(g.players[p].field) >= FieldLimit
    THEN [g |-> [g EXCEPT !.players[p].mana = @ - cost], ret |-> FALSE]
    ELSE [g |-> addLog(resolveCard([g EXCEPT !.players[p].hand = RemoveAt(@, cardIndex),
                                             !.players[p].mana = @ - cost],
                                   p, card, target),
                       "played", card.name),
          ret |-> TRUE]

\* playCard, with the card found and its cost settled
payAndPlay(g, p, cardIndex, card, target, cost) ==
    IF cost > g.players[p].mana THEN [g |-> g, ret |-> FALSE]
    ELSE IF card.type = "creature" /\ Len(g.players[p].field) >= FieldLimit
    THEN [g |-> g, ret |-> FALSE]
    ELSE [g |-> addLog(resolveCard([g EXCEPT !.players[p].hand = RemoveAt(@, cardIndex),
                                             !.players[p].mana = @ - cost],
                                   p, card, target),
                       "played", card.name),
          ret |-> TRUE]

\* ServerGame.playCard: the game afterwards and the value returned.
\* target = null and actualCost = null are the parameters' defaults, taken
\* when the argument is omitted.
playCard(g, p, cardIndex, target, actualCost) ==
    IF cardIndex < 0 \/ cardIndex >= Len(g.players[p].hand)
    THEN [g |-> g, ret |-> FALSE]
    ELSE payAndPlay(g, p, cardIndex, g.players[p].hand[cardIndex + 1],
                    IF target = Omitted THEN Null ELSE target,
                    IF actualCost # Null /\ actualCost # Omitted THEN actualCost.n
                    ELSE getCardCost(g, g.players[p].hand[cardIndex + 1], p))

-----------------------------------------------------------------------------
(* ServerGame: creature combat.  The cards are worked out first, with the   *)
(* log entries in the order the method adds them, then written to the game. *)

HasTaunt(c) == c.ability = "Taunt" \/ c.taunt

\* creatureCombat, Divine Shield: the pending damage each way
shields(attacker, target) ==
    [attacker |-> [attacker EXCEPT !.divineShield =
                       IF attacker.divineShield /\ target.attack > 0 THEN FALSE ELSE @],
     target |-> [target EXCEPT !.divineShield = FALSE],
     attackerDamage |-> IF target.divineShield THEN 0 ELSE attacker.attack,
     targetDamage |-> IF attacker.divineShield /\ target.attack > 0 THEN 0
                      ELSE target.attack,
     log |-> Say(target.divineShield, "Divine Shield absorbs the damage!", target.name)
             \o Say(attacker.divineShield /\ target.attack > 0,
                    "Divine Shield absorbs the damage!", attacker.name)]

\* the damage exchange with the attacker never struck back at (a faulty
\* variant, kept to compare the exchange against)
strikesUnanswered(attacker, target, hitT, hitA) ==
    [attacker |-> attacker, target |-> hitT.card, log |-> <<>>]

\* creatureCombat, First Strike and normal combat: hitT and hitA are
\* target.takeDamage(attackerDamage) and attacker.takeDamage(targetDamage)
strikes(attacker, target, hitT, hitA) ==
    IF attacker.ability = "First Strike" /\ ~Includes(target.ability, "First Strike")
    THEN [attacker |-> IF hitT.card.health > 0 THEN hitA.card ELSE attacker,
          target |-> hitT.card,
          log |-> Say(target.ability = "Enrage" /\ hitT.card.health > 0,
                      "enrages! +2 attack!", target.name)
                  \o Say(hitT.card.health > 0 /\ attacker.ability = "Enrage"
                         /\ hitA.card.health > 0, "enrages! +2 attack!", attacker.name)]
    ELSE IF target.ability = "First Strike" /\ ~Includes(attacker.ability, "First Strike")
    THEN [attacker |-> hitA.card,
          target |-> IF hitA.card.health > 0 THEN hitT.card ELSE target,
          log |-> Say(attacker.ability = "Enrage" /\ hitA.card.health > 0,
                      "enrages! +2 attack!", attacker.name)
                  \o Say(hitA.card.health > 0 /\ target.ability = "Enrage"
                         /\ hitT.card.health > 0, "enrages! +2 attack!", target.name)]
    ELSE [attacker |-> hitA.card,
          target |-> hitT.card,
          log |-> Say(target.ability = "Enrage" /\ hitT.card.health > 0 /\ hitT.dealt > 0,
                      "enrages! +2 attack!", target.name)
                  \o Say(attacker.ability = "Enrage" /\ hitA.card.health > 0
                         /\ hitA.dealt > 0, "enrages! +2 attack!", attacker.name)]

\* creatureCombat, Poison / Deathtouch / Instant kill, then Freeze enemy
deadly(attacker, target, attackerDamage, targetDamage) ==
    LET aKills == (attacker.ability \in {"Poison", "Deathtouch", "Instant kill"}
                   \/ attacker.instantKill) /\ attackerDamage > 0
        tKills == target.ability \in {"Poison", "Deathtouch"} /\ targetDamage > 0
        freeze == attacker.ability = "Freeze enemy"
                  /\ (IF aKills THEN 0 ELSE target.health) > 0
    IN [attacker |-> [attacker EXCEPT !.health = IF tKills THEN 0 ELSE @],
        target |-> [target EXCEPT !.health = IF aKills THEN 0 ELSE @,
                                  !.frozen = IF freeze THEN TRUE ELSE @],
        log |-> Say(aKills, "deadly ability destroys", target.name)
                \o Say(tKills, "deadly ability destroys", attacker.name)
                \o Say(freeze, "is frozen!", target.name)]

\* the two creatures after the damage exchange of creatureCombat, the log
\* entries of that part, and the attacker's pending damage
fightEnd(s, d, log) ==
    [attacker |-> d.attacker, target |-> d.target,
     attackerDamage |-> s.attackerDamage, log |-> log \o d.log]

fightStruck(s, k) ==
    fightEnd(s, deadly(k.attacker, k.target, s.attackerDamage, s.targetDamage),
             s.log \o k.log)

fightShielded(s) ==
    fightStruck(s, strikes(s.attacker, s.target,
                           takeDamage(s.target, s.attackerDamage),
                           takeDamage(s.attacker, s.targetDamage)))

fight(attacker, target) == fightShielded(shields(attacker, target))

\* creatureCombat, Trample
trample(g, def, attacker, target) ==
    IF attacker.ability = "Trample" /\ target.health <= 0 /\ Abs(target.health) > 0
    THEN checkGameOver(addLog([g EXCEPT !.players[def].health = @ - Abs(target.health)],
                              "Trample deals excess damage!", ""))
    ELSE g

\* Lifesteal / Lifelink: the owner heals
lifesteal(g, p, ability, cond, amount) ==
    IF (Includes(ability, "Lifesteal") \/ Includes(ability, "Lifelink")) /\ cond
    THEN addLog([g EXCEPT !.players[p].health = Min(g.players[p].maxHealth, @ + amount)],
                "Lifesteal heals!", "")
    ELSE g

\* creatureCombat from Trample on, f the outcome of the damage exchange
combatEnd(g, attackerOwner, ai, ti, f) ==
    addLog(
        lifesteal(
            trample(addLogs([g EXCEPT !.players[attackerOwner].field[ai + 1] = f.attacker,
                                      !.players[Other(attackerOwner)].field[ti + 1] = f.target],
                            f.log),
                    Other(attackerOwner), f.attacker, f.target),
            attackerOwner, f.attacker.ability, f.attackerDamage > 0,
            Min(f.attackerDamage,
                IF f.target.maxHealth # 0 THEN f.target.maxHealth ELSE f.attackerDamage)),
        "battles", f.attacker.name)

\* ServerGame.creatureCombat up to, and without, its closing death sweep.
\* ai and ti are the 0-based field positions of the two creature objects the
\* method is handed.
combatResolve(g, attackerOwner, ai, ti) ==
    combatEnd(g, attackerOwner, ai, ti,
              fight(g.players[attackerOwner].field[ai + 1],
                    g.players[Other(attackerOwner)].field[ti + 1]))

\* ServerGame.creatureCombat
creatureCombat(g, attackerOwner, ai, ti) ==
    IF g.players[Other(attackerOwner)].field[ti + 1].immune
       \/ g.players[Other(attackerOwner)].field[ti + 1].tempImmune
    THEN addLog(g, "is Immune!", g.players[Other(attackerOwner)].field[ti + 1].name)
    ELSE checkCreatureDeaths(combatResolve(g, attackerOwner, ai, ti))

-----------------------------------------------------------------------------
(* ServerGame: attacks *)

\* the checks on a creature target with the Flying check left out (a faulty
\* variant, kept to compare targetRejection against)
targetRejectionNoFlying(attacker, target) ==
    IF ~target.tapped /\ ~HasTaunt(target) THEN "Cannot attack defending creatures!"
    ELSE IF target.stealth THEN "Cannot attack stealthed creatures!"
    ELSE ""

\* processAttack, the checks on a creature target
targetRejection(attacker, target) ==
    IF ~target.tapped /\ ~HasTaunt(target) THEN "Cannot attack defending creatures!"
    ELSE IF target.stealth THEN "Cannot attack stealthed creatures!"
    ELSE IF target.ability = "Flying" /\ attacker.ability \notin {"Flying", "Reach"}
    THEN "Cannot reach flying creatures without Flying or Reach!"
    ELSE ""

\* the checks on an attacker with the two Taunt checks left out (a faulty
\* variant, kept to compare the gate against)
attackerRejectionNoTaunt(attacker, field, targetIndex) ==
    IF ~canAttack(attacker) THEN "cannot attack right now!"
    ELSE IF targetIndex = -1 /\ attacker.canOnlyAttackCreatures
    THEN "with Rush can only attack creatures this turn!"
    ELSE IF targetIndex >= 0 /\ targetIndex < Len(field)
    THEN targetRejection(attacker, field[targetIndex + 1])
    ELSE ""

\* processAttack, the checks on an attacker that exists
attackerRejection(attacker, field, targetIndex) ==
    IF ~canAttack(attacker) THEN "cannot attack right now!"
    ELSE IF targetIndex = -1 /\ attacker.canOnlyAttackCreatures
    THEN "with Rush can only attack creatures this turn!"
    ELSE IF (\E k \in 1..Len(field) : HasTaunt(field[k])) /\ targetIndex = -1
    THEN "Must attack Taunt creatures first!"
    ELSE IF (\E k \in 1..Len(field) : HasTaunt(field[k]))
            /\ targetIndex >= 0 /\ targetIndex < Len(field)
            /\ ~HasTaunt(field[targetIndex + 1])
    THEN "Must attack Taunt creatures first!"
    ELSE IF targetIndex >= 0 /\ targetIndex < Len(field)
    THEN targetRejection(attacker, field[targetIndex + 1])
    ELSE ""

\* The legality gate of ServerGame.processAttack: "" when the attack is
\* accepted, else the rejection taken ("index" adds no log entry, every other
\* one adds the entry of that name)
attackRejection(g, p, attackerIndex, targetIndex) ==
    IF attackerIndex < 0 \/ attackerIndex >= Len(g.players[p].field) THEN "index"
    ELSE attackerRejection(g.players[p].field[attackerIndex + 1],
                           g.players[Other(p)].field, targetIndex)

\* processAttack: the attacker loses stealth and is marked
markAttacker(g, p, k) ==
    [logIf(g.players[p].field[k].stealth, g, "loses stealth!", g.players[p].field[k].name)
        EXCEPT !.players[p].field[k] =
                   [markAttacked([@ EXCEPT !.stealth = FALSE])
                       EXCEPT !.attacksSinceReset = @ + 1]]

\* processAttack, the attack on the opposing player
faceAttack(g, p, attacker) ==
    checkGameOver(
        lifesteal(addLog([g EXCEPT !.players[Other(p)].health = @ - attacker.attack],
                         "attacks for damage!", attacker.name),
                  p, attacker.ability, TRUE, attacker.attack))

\* processAttack, after the legality gate and markAttacked
resolveAttack(g, p, attackerIndex, targetIndex) ==
    IF targetIndex = -1
    THEN faceAttack(g, p, g.players[p].field[attackerIndex + 1])
    ELSE IF targetIndex >= 0 /\ targetIndex < Len(g.players[Other(p)].field)
    THEN creatureCombat(g, p, attackerIndex, targetIndex)
    ELSE g

\* processAttack, given the outcome of the legality gate
attackOutcome(g, p, attackerIndex, targetIndex, why) ==
    IF why = "index" THEN [g |-> g, ret |-> FALSE]
    ELSE IF why # ""
    THEN [g |-> addLog(g, why,
                       IF why \in {"cannot attack right now!",
                                   "with Rush can only attack creatures this turn!"}
                       THEN g.players[p].field[attackerIndex + 1].name ELSE ""),
          ret |-> FALSE]
    ELSE [g |-> resolveAttack(markAttacker(g, p, attackerIndex + 1), p,
                              attackerIndex, targetIndex),
          ret |-> TRUE]

\* ServerGame.processAttack: the game afterwards and the value returned
processAttack(g, p, attackerIndex, targetIndex) ==
    attackOutcome(g, p, attackerIndex, targetIndex,
                  attackRejection(g, p, attackerIndex, targetIndex))

-----------------------------------------------------------------------------
(* ServerGame: turns *)

\* Burn without the game-over check after it (a faulty variant, kept to
\* compare startNewTurn against)
burnUnchecked(g, p, n) ==
    IF n > 0
    THEN addLog([g EXCEPT !.players[p].health = @ - n], "Burn deals damage", "")
    ELSE g

\* startNewTurn, Burn: n the number of opposing creatures with Burn
burn(g, p, n) ==
    IF n > 0
    THEN checkGameOver(addLog([g EXCEPT !.players[p].health = @ - n],
                              "Burn deals damage", ""))
    ELSE g

\* startNewTurn raising maxMana without the cap (a faulty variant, kept to
\* compare startNewTurn against)
startNewTurnUncapped(g, p) ==
    addLog(
        drawCard(
            burn([g EXCEPT !.players[p].maxMana = @ + 1,
                           !.players[p].mana = g.players[p].maxMana + 1,
                           !.players[p].field = [k \in 1..Len(@) |-> resetForTurn(@[k])]],
                 p,
                 Cardinality({k \in 1..Len(g.players[Other(p)].field) :
                                 g.players[Other(p)].field[k].ability = "Burn"})),
            p),
        "turn begins!", "")

\* ServerGame.startNewTurn
startNewTurn(g, p) ==
    addLog(
        drawCard(
            burn([g EXCEPT !.players[p].maxMana = Min(ManaCap, @ + 1),
                           !.players[p].mana = Min(ManaCap, g.players[p].maxMana + 1),
                           !.players[p].field = [k \in 1..Len(@) |-> resetForTurn(@[k])]],
                 p,
                 Cardinality({k \in 1..Len(g.players[Other(p)].field) :
                                 g.players[Other(p)].field[k].ability = "Burn"})),
            p),
        "turn begins!", "")

\* endTurn counting a round at every turn (a faulty variant, kept to compare
\* endTurn against)
endTurnCountsEveryTurn(g, p) ==
    IF g.currentTurn # p THEN [g |-> g, ret |-> FALSE]
    ELSE [g |-> startNewTurn([g EXCEPT !.currentTurn = 1 - g.currentTurn,
                                       !.totalTurns = @ + 1,
                                       !.turnNumber = @ + 1],
                             1 - g.currentTurn),
          ret |-> TRUE]

\* endTurn accepted from either player (a faulty variant, kept to compare
\* endTurn against)
endTurnByAnyone(g, p) ==
    [g |-> startNewTurn([g EXCEPT !.currentTurn = 1 - g.currentTurn,
                                  !.totalTurns = @ + 1,
                                  !.turnNumber = IF 1 - g.currentTurn = 0 THEN @ + 1 ELSE @],
                        1 - g.currentTurn),
     ret |-> TRUE]

\* ServerGame.endTurn: the game afterwards and the value returned
endTurn(g, p) ==
    IF g.currentTurn # p THEN [g |-> g, ret |-> FALSE]
    ELSE [g |-> startNewTurn(
                    [g EXCEPT
                       !.players = [i \in 0..1 |->
                           [g.players[i] EXCEPT !.field =
                               [k \in 1..Len(@) |-> [@[k] EXCEPT !.tempImmune = FALSE]]]],
                       !.currentTurn = 1 - g.currentTurn,
                       !.totalTurns = @ + 1,
                       !.turnNumber = IF 1 - g.currentTurn = 0 THEN @ + 1 ELSE @],
                    1 - g.currentTurn),
          ret |-> TRUE]

-----------------------------------------------------------------------------
(* ServerGame: decks *)

\* deckCards.map(cardData => new Card(cardData)): ids in the order of the data
cardInstances(deckCards, firstId) ==
    [k \in 1..Len(deckCards) |-> NewCard(deckCards[k], firstId + k - 1)]

\* ServerGame.initPlayerDeck: the game afterwards and the value returned.
\* perm is the order shuffleDeck leaves: position k holds instance perm[k].
dealtHand(g) ==
    [g |-> g, ret |-> Len(g.players[0].deck) > 0 /\ Len(g.players[1].deck) > 0]

initPlayerDeck(g, p, deckCards, perm) ==
    IF Len(g.players[p].deck) > 0 THEN [g |-> g, ret |-> FALSE]
    ELSE dealtHand(drawCards([g EXCEPT !.players[p].deck =
                                           [k \in 1..Len(deckCards) |->
                                               cardInstances(deckCards, g.nextId)[perm[k]]],
                                       !.nextId = @ + Len(deckCards)],
                             p, InitialHand))

-----------------------------------------------------------------------------
(* Card data *)

\* the catalogue (ALL_CARDS)
GoblinScout == Template("Goblin Scout", 1, "creature", 2, 1, "Quick")
FireSprite == Template("Fire Sprite", 1, "creature", 1, 2, "Burn")
ShieldBearer == Template("Shield Bearer", 2, "creature", 1, 4, "Taunt")
ForestWolf == Template("Forest Wolf", 2, "creature", 3, 2, "Rush")
ApprenticeMage == Template("Apprentice Mage", 2, "creature", 2, 2, "Spell Power +1")
SkeletonWarrior == Template("Skeleton Warrior", 1, "creature", 1, 1, "Deathrattle: Draw")
Peasant == Template("Peasant", 1, "creature", 1, 1, "")
Squire == Template("Squire", 1, "creature", 2, 1, "")
Militia == Template("Militia", 3, "creature", 3, 3, "")
ArcaneMissile == Template("Arcane Missile", 1, "spell", 0, 0, "Deal 2 damage")
LightningBolt == Template("Lightning Bolt", 2, "spell", 0, 0, "Deal 3 damage")
HealingTouch == Template("Healing Touch", 1, "spell", 0, 0, "Restore 3 health")
FrostBolt == Template("Frost Bolt", 2, "spell", 0, 0, "Deal 3 damage, Freeze")
BattleCry == Template("Battle Cry", 2, "spell", 0, 0, "All allies +1/+1")
DrawPower == Template("Draw Power", 2, "spell", 0, 0, "Draw 2 cards")
Phoenix == Template("Phoenix", 4, "creature", 4, 3, "Resurrect")
Knight == Template("Knight", 4, "creature", 4, 4, "Vigilance")
Berserker == Template("Berserker", 3, "creature", 3, 2, "Enrage")
AncientTree == Template("Ancient Tree", 6, "creature", 4, 7, "Regenerate")
StormCaller == Template("Storm Caller", 6, "creature", 5, 5, "AOE damage")
Meteor == Template("Meteor", 5, "spell", 0, 0, "Deal 6 damage")
DragonEmperor == Template("Dragon Emperor", 9, "creature", 9, 9, "Destroy all")

-----------------------------------------------------------------------------
(* The interface calls *)

This ==
    [players |-> players, currentTurn |-> currentTurn, turnNumber |-> turnNumber,
     totalTurns |-> totalTurns, gameOver |-> gameOver, winner |-> winner,
     gameLog |-> gameLog, nextId |-> nextId]

\* the record of a call: the method, the calling player, the value returned
\* and, for a call that returned false, which check refused it
Call(op, p, ret, why) == [op |-> op, p |-> p, ret |-> ret, why |-> why]

NoCall == Call("none", 0, FALSE, "")

\* the state after a call that left game g: a call that changed the game
\* counts against MaxCalls
Becomes(g, call) ==
    /\ g # This => calls < MaxCalls
    /\ players' = g.players
    /\ currentTurn' = g.currentTurn
    /\ turnNumber' = g.turnNumber
    /\ totalTurns' = g.totalTurns
    /\ gameOver' = g.gameOver
    /\ winner' = g.winner
    /\ gameLog' = g.gameLog
    /\ nextId' = g.nextId
    /\ lastCall' = call
    /\ calls' = IF g # This THEN calls + 1 ELSE calls
    /\ UNCHANGED lobbyVars

\* the orders shuffleDeck can leave n cards in: every order up to MaxShuffle
\* cards, and for a longer deck the order given and its reverse
Shuffles(n) ==
    IF n <= MaxShuffle
    THEN {f \in [1..n -> 1..n] : \A a, b \in 1..n : a # b => f[a] # f[b]}
    ELSE {[k \in 1..n |-> k], [k \in 1..n |-> n + 1 - k]}

\* the decks a caller submits
Decks == << <<Peasant, ArcaneMissile>>, <<>> >>

InitPlayerDeck(p, d) ==
    \E perm \in Shuffles(Len(Decks[d])) :
        Becomes(initPlayerDeck(This, p, Decks[d], perm).g,
                Call("initPlayerDeck", p, initPlayerDeck(This, p, Decks[d], perm).ret,
                     IF Len(players[p].deck) > 0 THEN "initialized" ELSE ""))

\* which check of playCard refuses the call ("" when none does)
playRejection(g, p, cardIndex, actualCost) ==
    IF cardIndex < 0 \/ cardIndex >= Len(g.players[p].hand) THEN "index"
    ELSE IF (IF actualCost # Null /\ actualCost # Omitted THEN actualCost.n
             ELSE getCardCost(g, g.players[p].hand[cardIndex + 1], p)) > g.players[p].mana
    THEN "mana"
    ELSE IF g.players[p].hand[cardIndex + 1].type = "creature"
            /\ Len(g.players[p].field) >= FieldLimit
    THEN "field"
    ELSE ""

\* the targets a caller names for the card at cardIndex: none for a creature,
\* and for a spell none, 'opponent', -1 and each index up to one past the
\* opposing field
PlayTargets(p, cardIndex) ==
    IF cardIndex >= 0 /\ cardIndex < Len(players[p].hand)
       /\ players[p].hand[cardIndex + 1].type = "spell"
    THEN {Omitted, Opponent} \cup {Num(k) : k \in -1..Len(players[Other(p)].field)}
    ELSE {Omitted}

PlayCard(p, cardIndex, target, cost) ==
    Becomes(playCard(This, p, cardIndex, target, cost).g,
            Call("playCard", p, playCard(This, p, cardIndex, target, cost).ret,
                 playRejection(This, p, cardIndex, cost)))

ProcessAttack(p, attackerIndex, targetIndex) ==
    Becomes(processAttack(This, p, attackerIndex, targetIndex).g,
            Call("processAttack", p, processAttack(This, p, attackerIndex, targetIndex).ret,
                 attackRejection(This, p, attackerIndex, targetIndex)))

EndTurn(p) ==
    Becomes(endTurn(This, p).g,
            Call("endTurn", p, endTurn(This, p).ret,
                 IF currentTurn # p THEN "turn" ELSE ""))

Next ==
    \/ \E p \in 0..1, d \in 1..Len(Decks) : InitPlayerDeck(p, d)
    \/ \E p \in 0..1 : \E cardIndex \in -1..Len(players[p].hand) :
          \E target \in PlayTargets(p, cardIndex) : PlayCard(p, cardIndex, target, Omitted)
    \/ \E p \in 0..1 : \E attackerIndex \in -1..Len(players[p].field) :
          \E targetIndex \in -2..Len(players[Other(p)].field) :
              ProcessAttack(p, attackerIndex, targetIndex)
    \/ \E p \in 0..1 : EndTurn(p)

-----------------------------------------------------------------------------
(* Starting states: the game a given sequence of calls leaves, from the    *)
(* constructor's.                                                          *)

Identity(n) == [k \in 1..n |-> k]

DoInit(p, deck) == [op |-> "initPlayerDeck", p |-> p, i |-> 0, t |-> Null, c |-> Null, d |-> deck]
DoPlay(p, i, t, c) == [op |-> "playCard", p |-> p, i |-> i, t |-> t, c |-> c, d |-> <<>>]
DoAttack(p, i, t) == [op |-> "processAttack", p |-> p, i |-> i, t |-> Num(t), c |-> Null, d |-> <<>>]
DoEnd(p) == [op |-> "endTurn", p |-> p, i |-> 0, t |-> Null, c |-> Null, d |-> <<>>]

Do(g, s) ==
    CASE s.op = "initPlayerDeck" -> initPlayerDeck(g, s.p, s.d, Identity(Len(s.d))).g
      [] s.op = "playCard"       -> playCard(g, s.p, s.i, s.t, s.c).g
      [] s.op = "processAttack"  -> processAttack(g, s.p, s.i, s.t.n).g
      [] s.op = "endTurn"        -> endTurn(g, s.p).g

RECURSIVE After(_, _)
After(g, script) == IF script = <<>> THEN g ELSE After(Do(g, Head(script)), Tail(script))

StartsIn(games) ==
    /\ \E g \in games :
          /\ players = g.players
          /\ currentTurn = g.currentTurn
          /\ turnNumber = g.turnNumber
          /\ totalTurns = g.totalTurns
          /\ gameOver = g.gameOver
          /\ winner = g.winner
          /\ gameLog = g.gameLog
          /\ nextId = g.nextId
    /\ lastCall = NoCall
    /\ calls = 0
    /\ matchmakingQueue = <<>>
    /\ activeGames = <<>>
    /\ sockets = [s \in 1..MaxSockets |-> "new"]
    /\ outbox = <<>>

Rounds(n) == [k \in 1..(2 * n) |-> DoEnd((k + 1) % 2)]   \* n turns of each player, player 0's first

\* n cards no player can afford during the turns modelled, to fill a deck
Filler(n) == [k \in 1..n |-> DragonEmperor]

\* Player 0 to move on turn 2 with Squire on the field and Forest Wolf in
\* hand; player 1 has Shield Bearer (Taunt) and Peasant on the field, both
\* just played.
TauntBoard ==
    After(NewGame,
          <<DoInit(0, <<Squire, ForestWolf>> \o Filler(6)),
            DoInit(1, <<ShieldBearer, Peasant>> \o Filler(5)),
            DoPlay(0, 0, Omitted, Omitted), DoEnd(0),
            DoPlay(1, 0, Omitted, Num(0)), DoPlay(1, 0, Omitted, Num(0)), DoEnd(1)>>)

\* a match from the constructor
Init == StartsIn({NewGame})

Spec == Init /\ [][Next]_vars

-----------------------------------------------------------------------------
(* Reading a state *)

\* the creature with the given id on either field of game g (<<>> when none)
OnField(g, id) ==
    [p \in 0..1 |-> SelectSeq(g.players[p].field, LAMBDA c : c.id = id)]

Alive(g, p, id) == Len(OnField(g, id)[p]) = 1
CardOf(g, p, id) == OnField(g, id)[p][1]

\* every health total of game g: the two players' and each creature's by id
Healths(g) ==
    [player |-> [p \in 0..1 |-> g.players[p].health],
     creature |-> [p \in 0..1 |->
                      {<<g.players[p].field[k].id, g.players[p].field[k].health>> :
                          k \in 1..Len(g.players[p].field)}]]

\* the indexes a caller names for a sequence: each position, and one past
\* either end
Indexes(s) == -1..Len(s)

-----------------------------------------------------------------------------
(* Taunt *)

SpecTaunt == StartsIn({TauntBoard}) /\ [][Next]_vars

OpponentHasTaunt(p) ==
    \E k \in 1..Len(players[Other(p)].field) : HasTaunt(players[Other(p)].field[k])

\* the target is the opposing player, or an opposing creature without Taunt
NotATaunt(p, targetIndex) ==
    \/ targetIndex = -1
    \/ /\ targetIndex >= 0
       /\ targetIndex < Len(players[Other(p)].field)
       /\ ~HasTaunt(players[Other(p)].field[targetIndex + 1])

\* C4: while the opposing field holds a creature with Taunt, a processAttack
\* call whose target is the opposing player (-1) or a creature without Taunt
\* returns false and leaves every health total as it was.
C4_TauntForcesTarget ==
    \A p \in 0..1 :
        OpponentHasTaunt(p) =>
            \A attackerIndex \in Indexes(players[p].field),
               targetIndex \in Indexes(players[Other(p)].field) :
                NotATaunt(p, targetIndex) =>
                    /\ ~processAttack(This, p, attackerIndex, targetIndex).ret
                    /\ Healths(processAttack(This, p, attackerIndex, targetIndex).g)
                           = Healths(This)

\* an attack has been refused by the Taunt check, the attacker being able to
\* attack and the opposing field holding both a Taunt and a non-Taunt creature
C4_Witness ==
    /\ lastCall.op = "processAttack"
    /\ ~lastCall.ret
    /\ lastCall.why = "Must attack Taunt creatures first!"
    /\ \E k \in 1..Len(players[Other(lastCall.p)].field) :
          ~HasTaunt(players[Other(lastCall.p)].field[k])

\* a creature as its template makes it, undamaged and unchanged
Fresh(c, template) ==
    /\ c.name = template.name
    /\ c.attack = template.attack
    /\ c.health = template.health
    /\ c.maxHealth = template.health
    /\ c.ability = template.ability
    /\ ~c.divineShield /\ ~c.immune /\ ~c.tempImmune /\ ~c.instantKill

\* the accepted attacks of a fresh Forest Wolf of player p on a fresh Shield
\* Bearer: <<attackerIndex, targetIndex>>
WolfOnBearer(p) ==
    {a \in (0..(Len(players[p].field) - 1)) \X (0..(Len(players[Other(p)].field) - 1)) :
        /\ Fresh(players[p].field[a[1] + 1], ForestWolf)
        /\ Fresh(players[Other(p)].field[a[2] + 1], ShieldBearer)
        /\ attackRejection(This, p, a[1], a[2]) = ""}

\* the health of the creature with that id after processAttack(p, a[1], a[2])
\* (0 when it has left the field)
HealthAfterAttack(p, a, owner, id) ==
    IF Alive(processAttack(This, p, a[1], a[2]).g, owner, id)
    THEN CardOf(processAttack(This, p, a[1], a[2]).g, owner, id).health
    ELSE 0

\* C7 (as the specification states it): a Forest Wolf (3/2, Rush) attacking a
\* Shield Bearer (1/4, Taunt) leaves the Shield Bearer at 1 health and the
\* Forest Wolf at 2 health.
C7_WolfKeepsTwoHealth ==
    \A p \in 0..1 : \A a \in WolfOnBearer(p) :
        /\ processAttack(This, p, a[1], a[2]).ret
        /\ HealthAfterAttack(p, a, Other(p), players[Other(p)].field[a[2] + 1].id) = 1
        /\ HealthAfterAttack(p, a, p, players[p].field[a[1] + 1].id) = 2

\* C7 (as the code has it): a Forest Wolf (3/2, Rush) attacking a Shield
\* Bearer (1/4, Taunt) leaves the Shield Bearer at 1 health and the Forest
\* Wolf, struck back for the Shield Bearer's 1 attack, at 1 health.
C7_WolfIsStruckBack ==
    \A p \in 0..1 : \A a \in WolfOnBearer(p) :
        /\ processAttack(This, p, a[1], a[2]).ret
        /\ HealthAfterAttack(p, a, Other(p), players[Other(p)].field[a[2] + 1].id) = 1
        /\ HealthAfterAttack(p, a, p, players[p].field[a[1] + 1].id) = 1

\* a Forest Wolf has just attacked a Shield Bearer: both stand at 1 health
C7_Witness ==
    /\ lastCall.op = "processAttack"
    /\ lastCall.ret
    /\ \E k \in 1..Len(players[lastCall.p].field) :
          /\ players[lastCall.p].field[k].name = "Forest Wolf"
          /\ players[lastCall.p].field[k].attacksSinceReset = 1
          /\ players[lastCall.p].field[k].health = 1
    /\ \E k \in 1..Len(players[Other(lastCall.p)].field) :
          /\ players[Other(lastCall.p)].field[k].name = "Shield Bearer"
          /\ players[Other(lastCall.p)].field[k].health = 1

-----------------------------------------------------------------------------
(* Divine Shield *)

\* deck data outside the catalogue: a creature whose ability is exactly
\* 'Divine Shield', and one that also carries the immune flag
Paladin == Template("Paladin", 2, "creature", 2, 3, "Divine Shield")
WardedPaladin == [Template("Warded Paladin", 2, "creature", 2, 3, "Divine Shield")
                     EXCEPT !.immune = TRUE]

\* deck data outside the catalogue: a cheap creature with 'AOE damage'
StormAdept == Template("Storm Adept", 1, "creature", 1, 1, "AOE damage")

\* Player 0 to move on turn 2 with Squire and Paladin on the field, Arcane
\* Missile and Storm Adept in hand; player 1 has Paladin and Warded Paladin
\* on the field, both just played.
ShieldBoard ==
    After(NewGame,
          <<DoInit(0, <<Squire, Paladin, ArcaneMissile, StormAdept>> \o Filler(4)),
            DoInit(1, <<Paladin, WardedPaladin>> \o Filler(5)),
            DoPlay(0, 0, Omitted, Num(0)), DoPlay(0, 0, Omitted, Num(0)), DoEnd(0),
            DoPlay(1, 0, Omitted, Num(0)), DoPlay(1, 0, Omitted, Num(0)), DoEnd(1)>>)

SpecShield == StartsIn({ShieldBoard}) /\ [][Next]_vars

HealthIn(g, owner, id) == IF Alive(g, owner, id) THEN CardOf(g, owner, id).health ELSE 0
ShieldIn(g, owner, id) == Alive(g, owner, id) /\ CardOf(g, owner, id).divineShield

\* creature c of player owner, hit for dmg, in the game after the hit: a
\* shielded creature keeps its health and loses the shield, an unshielded one
\* loses min(dmg, health)
HitLanded(c, owner, after, dmg) ==
    IF c.divineShield
    THEN HealthIn(after, owner, c.id) = c.health /\ ~ShieldIn(after, owner, c.id)
    ELSE HealthIn(after, owner, c.id) = c.health - Min(dmg, c.health)

Immune(c) == c.immune \/ c.tempImmune

\* abilities that change what combat does to the other creature's health
Plain(c) ==
    /\ c.ability \notin {"Poison", "Deathtouch", "Instant kill", "First Strike"}
    /\ ~c.instantKill

\* every damage event a call can apply in this state leaves the creature it
\* hits as HitLanded says; exempt(c) excuses creature c
HitsLand(exempt(_)) ==
    \A p \in 0..1 :
        /\ \A i \in 0..(Len(players[p].hand) - 1) :
              playRejection(This, p, i, Omitted) = "" =>
                  /\ Includes(players[p].hand[i + 1].ability, "Deal")
                        /\ players[p].hand[i + 1].type = "spell" =>
                        \A k \in 0..(Len(players[Other(p)].field) - 1) :
                            exempt(players[Other(p)].field[k + 1])
                            \/ HitLanded(players[Other(p)].field[k + 1], Other(p),
                                         playCard(This, p, i, Num(k), Omitted).g,
                                         AbilityNumber(players[p].hand[i + 1].ability)
                                            + players[p].spellPower)
                  /\ players[p].hand[i + 1].ability = "AOE damage"
                        /\ players[p].hand[i + 1].type = "creature" =>
                        \A k \in 1..Len(players[Other(p)].field) :
                            exempt(players[Other(p)].field[k])
                            \/ HitLanded(players[Other(p)].field[k], Other(p),
                                         playCard(This, p, i, Omitted, Omitted).g, AoeDamage)
        /\ \A ai \in 0..(Len(players[p].field) - 1),
              ti \in 0..(Len(players[Other(p)].field) - 1) :
              (/\ attackRejection(This, p, ai, ti) = ""
               /\ ~Immune(players[Other(p)].field[ti + 1])
               /\ Plain(players[p].field[ai + 1])
               /\ Plain(players[Other(p)].field[ti + 1])) =>
                  /\ players[p].field[ai + 1].attack > 0 =>
                        \/ exempt(players[Other(p)].field[ti + 1])
                        \/ HitLanded(players[Other(p)].field[ti + 1], Other(p),
                                     processAttack(This, p, ai, ti).g,
                                     players[p].field[ai + 1].attack)
                  /\ players[Other(p)].field[ti + 1].attack > 0 =>
                        \/ exempt(players[p].field[ai + 1])
                        \/ HitLanded(players[p].field[ai + 1], p,
                                     processAttack(This, p, ai, ti).g,
                                     players[Other(p)].field[ti + 1].attack)

NoneExempt(c) == FALSE

\* a step never gives a creature that stays on the field its shield back
ShieldNotRestored ==
    \A p \in 0..1 : \A k \in 1..Len(players[p].field), j \in 1..Len(players'[p].field) :
        (players'[p].field[j].id = players[p].field[k].id
         /\ ~players[p].field[k].divineShield) => ~players'[p].field[j].divineShield

-----------------------------------------------------------------------------
(* Enrage *)

\* deck data outside the catalogue: an Enrage creature that survives several
\* hits
RagingOgre == Template("Raging Ogre", 2, "creature", 2, 5, "Enrage")

\* Player 0 to move on turn 2 with Shield Bearer on the field and Arcane
\* Missile in hand; player 1 has Raging Ogre and Berserker on the field, both
\* just played.
EnrageBoard ==
    After(NewGame,
          <<DoInit(0, <<ShieldBearer, ArcaneMissile>> \o Filler(6)),
            DoInit(1, <<RagingOgre, Berserker>> \o Filler(5)),
            DoPlay(0, 0, Omitted, Num(0)), DoEnd(0),
            DoPlay(1, 0, Omitted, Num(0)), DoPlay(1, 0, Omitted, Num(0)), DoEnd(1)>>)

SpecEnrage == StartsIn({EnrageBoard}) /\ [][Next]_vars

\* what a step adds to a creature's attack beyond an 'All allies' buff (a
\* buff raises attack and maxHealth alike; damage leaves maxHealth alone)
AttackGain(before, after) ==
    (after.attack - before.attack) - (after.maxHealth - before.maxHealth)

\* across a step, a creature with Enrage that stays on the field: once
\* enraged it stays enraged and gains nothing; not yet enraged it gains
\* nothing, or gains the bonus and becomes enraged, having lost health and
\* survived
EnrageOnce ==
    \A p \in 0..1 : \A k \in 1..Len(players[p].field), j \in 1..Len(players'[p].field) :
        (players'[p].field[j].id = players[p].field[k].id
         /\ players[p].field[k].ability = "Enrage") =>
            IF players[p].field[k].enraged
            THEN /\ players'[p].field[j].enraged
                 /\ AttackGain(players[p].field[k], players'[p].field[j]) = 0
            ELSE \/ /\ ~players'[p].field[j].enraged
                    /\ AttackGain(players[p].field[k], players'[p].field[j]) = 0
                 \/ /\ players'[p].field[j].enraged
                    /\ AttackGain(players[p].field[k], players'[p].field[j]) = EnrageBonus
                    /\ players'[p].field[j].health > 0

\* C2: over any sequence of calls, a creature whose ability is Enrage gets
\* the bonus (+2 attack, enraged set) at most once: once it is enraged, no
\* later damage, combat or turn reset changes its attack or clears the flag.
C2_EnrageAtMostOnce == [][EnrageOnce]_vars

\* an enraged creature has taken a second hit and survived it (no single hit
\* on this board takes three health) and carries the bonus once
C2_Witness ==
    /\ lastCall.ret
    /\ \E p \in 0..1 : \E k \in 1..Len(players[p].field) :
          /\ players[p].field[k].name = "Raging Ogre"
          /\ players[p].field[k].enraged
          /\ players[p].field[k].health <= players[p].field[k].maxHealth - 3
          /\ players[p].field[k].health > 0
          /\ players[p].field[k].attack = RagingOgre.attack + EnrageBonus

-----------------------------------------------------------------------------
(* Windfury and Double Strike *)

\* deck data outside the catalogue: creatures whose ability is exactly
\* 'Windfury' or 'Double Strike', without and with the vigilance flag
WindRider == Template("Wind Rider", 2, "creature", 1, 5, "Windfury")
Duelist == Template("Duelist", 2, "creature", 1, 5, "Double Strike")
VigilantWindRider == [WindRider EXCEPT !.name = "Vigilant Wind Rider", !.vigilance = TRUE]
VigilantDuelist == [Duelist EXCEPT !.name = "Vigilant Duelist", !.vigilance = TRUE]

\* Player 0 to move on turn 2 with the given creature on the field, which
\* has attacked once this turn; player 1 has Shield Bearer (Taunt) on the
\* field.
OneAttackMade(creature) ==
    After(NewGame,
          <<DoInit(0, <<creature>> \o Filler(7)),
            DoInit(1, <<ShieldBearer>> \o Filler(6)),
            DoPlay(0, 0, Omitted, Num(0)), DoEnd(0),
            DoPlay(1, 0, Omitted, Num(0)), DoEnd(1),
            DoAttack(0, 0, 0)>>)

SpecMultiAttack ==
    StartsIn({OneAttackMade(c) : c \in {WindRider, Duelist, VigilantWindRider,
                                        VigilantDuelist}})
    /\ [][Next]_vars

\* C3: between two resetForTurn calls a creature with Windfury or Double
\* Strike, with or without vigilance, is accepted as attacker at most twice:
\* it never has more than two accepted attacks since its last reset, and
\* once it has two, processAttack refuses it whatever the target.
C3_AtMostTwoAttacks ==
    \A p \in 0..1 : \A k \in 1..Len(players[p].field) :
        players[p].field[k].ability \in {"Windfury", "Double Strike"} =>
            /\ players[p].field[k].attacksSinceReset <= 2
            /\ players[p].field[k].attacksSinceReset = 2 =>
                  \A targetIndex \in -2..Len(players[Other(p)].field) :
                      ~processAttack(This, p, k - 1, targetIndex).ret

\* a third attack in one turn has just been refused to a creature that
\* vigilance has kept untapped through its two attacks
C3_Witness ==
    /\ lastCall.op = "processAttack"
    /\ ~lastCall.ret
    /\ lastCall.why = "cannot attack right now!"
    /\ Len(players[lastCall.p].field) = 1
    /\ players[lastCall.p].field[1].ability \in {"Windfury", "Double Strike"}
    /\ players[lastCall.p].field[1].vigilance
    /\ ~players[lastCall.p].field[1].tapped
    /\ players[lastCall.p].field[1].attacksSinceReset = 2

-----------------------------------------------------------------------------
(* Deaths, draws and Resurrect *)

\* Player 0 to move on turn 2 with Militia on the field and Lightning Bolt
\* in hand; player 1 has Phoenix and Skeleton Warrior on the
\* field, both just played, Draw Power in hand and an empty deck.
DeathBoard ==
    After(NewGame,
          <<DoInit(0, <<Militia, LightningBolt>> \o Filler(6)),
            DoInit(1, <<Phoenix, SkeletonWarrior, DrawPower>>),
            DoPlay(0, 0, Omitted, Num(0)), DoEnd(0),
            DoPlay(1, 0, Omitted, Num(0)), DoPlay(1, 0, Omitted, Num(0)), DoEnd(1)>>)

\* The same with a Phoenix of player 0's on the field in Militia's place and
\* with player 1's hand full: player 1 has played six Draw Power and holds 10
\* cards, with cards left in the deck.
FullHandBoard ==
    After(NewGame,
          <<DoInit(0, <<Phoenix, LightningBolt>> \o Filler(6)),
            DoInit(1, <<Phoenix, SkeletonWarrior>> \o [k \in 1..6 |-> DrawPower]
                      \o Filler(13)),
            DoPlay(0, 0, Omitted, Num(0)), DoEnd(0),
            DoPlay(1, 0, Omitted, Num(0)), DoPlay(1, 0, Omitted, Num(0))>>
          \o [k \in 1..6 |-> DoPlay(1, 0, Omitted, Num(0))]
          \o <<DoEnd(1)>>)

SpecDeath == StartsIn({DeathBoard, FullHandBoard}) /\ [][Next]_vars

\* the creatures on the two fields: <<owner, position>>
Creatures == UNION {{<<p, k>> : k \in 1..Len(players[p].field)} : p \in 0..1}

\* the game with the creatures in S brought to 0 health, as damage leaves
\* them before the sweep runs
Fallen(S) ==
    [This EXCEPT !.players =
        [p \in 0..1 |->
            [players[p] EXCEPT !.field =
                [k \in 1..Len(players[p].field) |->
                    IF <<p, k>> \in S THEN [players[p].field[k] EXCEPT !.health = 0]
                    ELSE players[p].field[k]]]]]

\* a second sweep straight after the sweep of g changes nothing
SweptOnce(g) == checkCreatureDeaths(checkCreatureDeaths(g)) = checkCreatureDeaths(g)

\* the accepted attacks of player p on a creature that is not immune
Combats(p) ==
    {a \in (0..(Len(players[p].field) - 1)) \X (0..(Len(players[Other(p)].field) - 1)) :
        /\ attackRejection(This, p, a[1], a[2]) = ""
        /\ ~Immune(players[Other(p)].field[a[2] + 1])}

\* C5: the death sweep is idempotent: whichever creatures damage has brought
\* to 0 health (any set of those on the fields, and the outcome of any
\* combat), a second sweep run straight after the first leaves the whole
\* game (fields, hands, decks, graveyards, spellPower) as the first left it.
C5_SweepIdempotent ==
    /\ \A S \in SUBSET Creatures : SweptOnce(Fallen(S))
    /\ \A p \in 0..1 : \A a \in Combats(p) :
          SweptOnce(combatResolve(markAttacker(This, p, a[1] + 1), p, a[1], a[2]))

\* a sweep has just removed a creature with a death effect: it lies in its
\* owner's graveyard and no creature on a field is at 0 health
C5_Witness ==
    /\ lastCall.ret
    /\ lastCall.op \in {"playCard", "processAttack"}
    /\ \E p \in 0..1 : \E k \in 1..Len(players[p].graveyard) :
          players[p].graveyard[k].ability \in {"Resurrect", "Deathrattle: Draw"}
    /\ \A c \in Creatures : players[c[1]].field[c[2]].health > 0

\* drawCard has nothing to draw, or nowhere to put it
NoRoom(g, p) == Len(g.players[p].deck) = 0 \/ Len(g.players[p].hand) >= HandLimit

\* the calls of player p that destroy creature k of the other player's field
\* (not shielded, not immune): the game each leaves
Kills(p, k) ==
    {playCard(This, p, i, Num(k - 1), Omitted).g :
        i \in {i \in 0..(Len(players[p].hand) - 1) :
                  /\ playRejection(This, p, i, Omitted) = ""
                  /\ players[p].hand[i + 1].type = "spell"
                  /\ Includes(players[p].hand[i + 1].ability, "Deal")
                  /\ AbilityNumber(players[p].hand[i + 1].ability) + players[p].spellPower
                        >= players[Other(p)].field[k].health}}
    \cup
    {processAttack(This, p, ai, k - 1).g :
        ai \in {ai \in 0..(Len(players[p].field) - 1) :
                   /\ attackRejection(This, p, ai, k - 1) = ""
                   /\ players[p].field[ai + 1].attack >= players[Other(p)].field[k].health}}

\* the attacks of player p's creature k that destroy it: the game each leaves
Falls(p, k) ==
    {processAttack(This, p, k - 1, ti).g :
        ti \in {ti \in 0..(Len(players[Other(p)].field) - 1) :
                   /\ attackRejection(This, p, k - 1, ti) = ""
                   /\ ~Immune(players[Other(p)].field[ti + 1])
                   /\ players[p].field[k].ability # "First Strike"
                   /\ players[Other(p)].field[ti + 1].attack >= players[p].field[k].health}}

Mortal(c) == ~c.divineShield /\ ~Immune(c)

\* C6: drawCard on a player whose deck is empty or whose hand holds 10 cards
\* changes nothing, wherever the draw comes from: called on its own; at the
\* start of a turn; from Deathrattle: Draw; from a Draw spell on an empty
\* deck; and in the initial hand, which takes what the deck and the hand's
\* room allow and no more.
C6_DrawWithoutRoom ==
    /\ \A p \in 0..1 : NoRoom(This, p) => drawCard(This, p) = This
    /\ NoRoom(This, Other(currentTurn)) =>
          /\ endTurn(This, currentTurn).g.players[Other(currentTurn)].hand
                = players[Other(currentTurn)].hand
          /\ endTurn(This, currentTurn).g.players[Other(currentTurn)].deck
                = players[Other(currentTurn)].deck
          /\ endTurn(This, currentTurn).g.players[Other(currentTurn)].graveyard
                = players[Other(currentTurn)].graveyard
    /\ \A p \in 0..1 : \A k \in 1..Len(players[p].field) :
          (/\ players[p].field[k].ability = "Deathrattle: Draw"
           /\ Mortal(players[p].field[k])
           /\ NoRoom(This, p)) =>
              \A g \in Kills(Other(p), k) \cup Falls(p, k) :
                  /\ g.players[p].hand = players[p].hand
                  /\ g.players[p].deck = players[p].deck
                  /\ g.players[p].graveyard = Append(players[p].graveyard, g.players[p].graveyard[Len(g.players[p].graveyard)])
                  /\ g.players[p].graveyard[Len(g.players[p].graveyard)].id = players[p].field[k].id
    /\ \A p \in 0..1 : \A i \in 0..(Len(players[p].hand) - 1) :
          (/\ playRejection(This, p, i, Omitted) = ""
           /\ players[p].hand[i + 1].type = "spell"
           /\ Includes(players[p].hand[i + 1].ability, "Draw")
           /\ Len(players[p].deck) = 0) =>
              /\ playCard(This, p, i, Omitted, Omitted).g.players[p].hand
                    = RemoveAt(players[p].hand, i)
              /\ playCard(This, p, i, Omitted, Omitted).g.players[p].deck = <<>>
    /\ \A p \in 0..1 : \A d \in 1..Len(Decks) : \A perm \in Shuffles(Len(Decks[d])) :
          Len(players[p].deck) = 0 =>
              /\ Len(initPlayerDeck(This, p, Decks[d], perm).g.players[p].hand)
                    = Len(players[p].hand)
                      + Min(InitialHand, Min(Len(Decks[d]), HandLimit - Len(players[p].hand)))
              /\ Len(initPlayerDeck(This, p, Decks[d], perm).g.players[p].hand)
                 + Len(initPlayerDeck(This, p, Decks[d], perm).g.players[p].deck)
                    = Len(players[p].hand) + Len(Decks[d])

\* a turn has just begun for a player whose hand is full: the deck still
\* holds cards and none was drawn
C6_Witness ==
    /\ lastCall.op = "endTurn"
    /\ lastCall.ret
    /\ Len(players[currentTurn].hand) = HandLimit
    /\ Len(players[currentTurn].deck) > 0
    /\ Len(gameLog) >= 2
    /\ gameLog[Len(gameLog)].message[1] = "turn begins!"
    /\ gameLog[Len(gameLog) - 1].message[1] # "drew"

-----------------------------------------------------------------------------
(* A lethal spell *)

\* The caster to move with Apprentice Mage (Spell Power +1) on the field and
\* Arcane Missile in hand; four Meteors and a Lightning Bolt have brought the
\* other player to 3 health.
LethalBoard(caster) ==
    After(NewGame,
          <<DoInit(caster, <<Meteor, Meteor, Meteor, Meteor, LightningBolt,
                             ApprenticeMage, ArcaneMissile>> \o Filler(4)),
            DoInit(Other(caster), Filler(9))>>
          \o [k \in 1..5 |-> DoPlay(caster, 0, Opponent, Num(0))]
          \o (IF caster = 0 THEN Rounds(2) ELSE SubSeq(Rounds(2), 1, 3))
          \o <<DoPlay(caster, 0, Omitted, Num(0))>>)

SpecLethal == StartsIn({LethalBoard(0), LethalBoard(1)}) /\ [][Next]_vars

\* the damage spells player p can play now: the 0-based hand index and the
\* damage dealt
DamageSpells(p) ==
    {<<i, AbilityNumber(players[p].hand[i + 1].ability) + players[p].spellPower>> :
        i \in {i \in 0..(Len(players[p].hand) - 1) :
                  /\ players[p].hand[i + 1].type = "spell"
                  /\ Includes(players[p].hand[i + 1].ability, "Deal")
                  /\ playRejection(This, p, i, Omitted) = ""}}

\* C8: with the game not over, a damage spell played at the opposing player
\* (target 'opponent' or -1) for at least that player's health, the damage
\* being the spell's amount plus the caster's spellPower, leaves gameOver
\* true and winner equal to the caster's index when playCard returns.
C8_LethalSpellWins ==
    ~gameOver =>
        \A p \in 0..1 : \A s \in DamageSpells(p) :
            s[2] >= players[Other(p)].health =>
                \A target \in {Opponent, Num(-1)} :
                    /\ playCard(This, p, s[1], target, Omitted).ret
                    /\ playCard(This, p, s[1], target, Omitted).g.gameOver
                    /\ playCard(This, p, s[1], target, Omitted).g.winner = p

\* an Arcane Missile raised to 3 damage by spell power has just brought the
\* other player from 3 health to 0: the game is over and the caster has won
C8_Witness ==
    /\ lastCall.op = "playCard"
    /\ lastCall.ret
    /\ gameOver
    /\ winner = lastCall.p
    /\ players[lastCall.p].spellPower = 1
    /\ players[Other(lastCall.p)].health = 0
    /\ Len(players[lastCall.p].graveyard) > 0
    /\ players[lastCall.p].graveyard[Len(players[lastCall.p].graveyard)].name
          = "Arcane Missile"

-----------------------------------------------------------------------------
(* Turns *)

\* C10: endTurn from the player whose turn it is not returns false and
\* leaves the whole game as it was; currentTurn changes only in a step that
\* is an accepted endTurn, and every accepted endTurn passes the turn to the
\* other player.
C10_TurnPassesByEndTurn ==
    /\ [](endTurn(This, Other(currentTurn)) = [g |-> This, ret |-> FALSE])
    /\ [][/\ currentTurn' # currentTurn =>
                (lastCall'.op = "endTurn" /\ lastCall'.ret /\ lastCall'.p = currentTurn)
          /\ (lastCall'.op = "endTurn" /\ lastCall'.ret) =>
                (currentTurn' = Other(currentTurn) /\ lastCall'.p = currentTurn)]_vars

\* endTurn has just been refused to the player whose turn it is not, with
\* creatures on both fields
C10_Witness ==
    /\ lastCall.op = "endTurn"
    /\ ~lastCall.ret
    /\ lastCall.why = "turn"
    /\ lastCall.p # currentTurn
    /\ \A p \in 0..1 : Len(players[p].field) > 0

-----------------------------------------------------------------------------
(* Refused plays; the limits of hand and field *)

\* deck data outside the catalogue: a creature with 'Summon skeletons'
GraveCaller == Template("Grave Caller", 1, "creature", 1, 1, "Summon skeletons")

\* Player 0 to move on turn 2 with 2 mana, five Peasants on the field, all
\* just played, and Grave Caller and Squire in hand.
CrowdBoard ==
    After(NewGame,
          <<DoInit(0, <<Peasant, Peasant, Peasant, Peasant, DrawPower, Peasant,
                        GraveCaller, Squire>> \o Filler(3)),
            DoInit(1, Filler(9)),
            DoEnd(0), DoEnd(1)>>
          \o [k \in 1..6 |-> DoPlay(0, 0, Omitted, Num(0))])

SpecLimits == StartsIn({CrowdBoard, FullHandBoard}) /\ [][Next]_vars

\* the costs a caller passes to playCard: none, null and a number
Costs == {Omitted, Null} \cup {Num(n) : n \in -1..3}

\* the cost playCard charges for the card at cardIndex
EffectiveCost(p, cardIndex, cost) ==
    IF cost \in {Omitted, Null}
    THEN getCardCost(This, players[p].hand[cardIndex + 1], p)
    ELSE cost.n

\* one of the three cases in which playCard refuses the card
Refused(p, cardIndex, cost) ==
    \/ cardIndex < 0
    \/ cardIndex >= Len(players[p].hand)
    \/ EffectiveCost(p, cardIndex, cost) > players[p].mana
    \/ /\ players[p].hand[cardIndex + 1].type = "creature"
       /\ Len(players[p].field) >= FieldLimit

\* C11: playCard returns false and leaves the whole game as it was (hands,
\* mana, fields, graveyards, spellsCount and both players' health with it)
\* when cardIndex is outside the hand, when the cost charged exceeds the
\* player's mana, and when a creature is played onto a field of 7.
C11_RefusedPlayChangesNothing ==
    \A p \in 0..1 : \A cardIndex \in Indexes(players[p].hand) : \A cost \in Costs :
        Refused(p, cardIndex, cost) =>
            \A target \in PlayTargets(p, cardIndex) :
                playCard(This, p, cardIndex, target, cost) = [g |-> This, ret |-> FALSE]

\* a creature has just been refused because its owner's field holds 7
C11_Witness ==
    /\ lastCall.op = "playCard"
    /\ ~lastCall.ret
    /\ lastCall.why = "field"
    /\ Len(players[lastCall.p].field) = FieldLimit
    /\ players[lastCall.p].mana > 0

\* C16: each player's hand holds at most 10 cards and each player's field at
\* most 7 creatures.
C16_HandAndFieldLimits ==
    \A p \in 0..1 :
        /\ Len(players[p].hand) <= HandLimit
        /\ Len(players[p].field) <= FieldLimit

\* Grave Caller has just been played onto a field of 5: the field holds 7,
\* one Skeleton token among them
C16_Witness ==
    /\ lastCall.op = "playCard"
    /\ lastCall.ret
    /\ Len(players[lastCall.p].field) = FieldLimit
    /\ players[lastCall.p].field[FieldLimit].name = "Skeleton"
    /\ players[lastCall.p].field[FieldLimit - 1].name = "Grave Caller"

-----------------------------------------------------------------------------
(* Refused attacks *)

Archer == Template("Archer", 2, "creature", 2, 2, "Reach")
ShadowAssassin == Template("Shadow Assassin", 3, "creature", 4, 2, "Stealth")
FireDrake == Template("Fire Drake", 5, "creature", 5, 4, "Flying")

\* Player 0 to move on turn 3 with 3 mana, Squire on the field and Forest
\* Wolf and Archer in hand; player 1 has Peasant on the field, untapped, and
\* Fire Drake (Flying) and Shadow Assassin (Stealth), both just played.
GateBoard ==
    After(NewGame,
          <<DoInit(0, <<Squire, ForestWolf, Archer>> \o Filler(6)),
            DoInit(1, <<Peasant, FireDrake, ShadowAssassin>> \o Filler(6)),
            DoPlay(0, 0, Omitted, Num(0)), DoEnd(0),
            DoPlay(1, 0, Omitted, Num(0)), DoEnd(1),
            DoEnd(0),
            DoPlay(1, 0, Omitted, Num(0)), DoPlay(1, 0, Omitted, Num(0)), DoEnd(1)>>)

SpecGate == StartsIn({TauntBoard, GateBoard}) /\ [][Next]_vars

\* targetIndex names a creature of the field opposite player p
NamesCreature(p, targetIndex) ==
    targetIndex >= 0 /\ targetIndex < Len(players[Other(p)].field)

\* a legality condition of processAttack fails
Illegal(p, attackerIndex, targetIndex) ==
    \/ attackerIndex < 0
    \/ attackerIndex >= Len(players[p].field)
    \/ ~canAttack(players[p].field[attackerIndex + 1])
    \/ targetIndex = -1 /\ players[p].field[attackerIndex + 1].canOnlyAttackCreatures
    \/ OpponentHasTaunt(p) /\ NotATaunt(p, targetIndex)
    \/ /\ NamesCreature(p, targetIndex)
       /\ \/ /\ ~players[Other(p)].field[targetIndex + 1].tapped
             /\ ~HasTaunt(players[Other(p)].field[targetIndex + 1])
          \/ players[Other(p)].field[targetIndex + 1].stealth
          \/ /\ players[Other(p)].field[targetIndex + 1].ability = "Flying"
             /\ players[p].field[attackerIndex + 1].ability \notin {"Flying", "Reach"}

\* C12: processAttack returns false and leaves both players as they were
\* (their health and every card's health, attack and status flags with
\* them) whenever a legality condition fails: the attacker index is invalid
\* or the attacker cannot attack, a creature that can only attack creatures
\* is sent at the opposing player, a Taunt creature is present and the target
\* is not one, the target is untapped without Taunt, the target has stealth,
\* or the target has Flying and the attacker neither Flying nor Reach.
C12_RefusedAttackChangesNothing ==
    \A p \in 0..1 :
        \A attackerIndex \in Indexes(players[p].field),
           targetIndex \in Indexes(players[Other(p)].field) :
            Illegal(p, attackerIndex, targetIndex) =>
                /\ ~processAttack(This, p, attackerIndex, targetIndex).ret
                /\ processAttack(This, p, attackerIndex, targetIndex).g.players = players

\* an attack on Fire Drake has just been refused for want of Flying or Reach,
\* with Forest Wolf on the attacker's field
C12_Witness ==
    /\ lastCall.op = "processAttack"
    /\ ~lastCall.ret
    /\ lastCall.why = "Cannot reach flying creatures without Flying or Reach!"
    /\ \E k \in 1..Len(players[lastCall.p].field) :
          /\ Fresh(players[lastCall.p].field[k], ForestWolf)
          /\ canAttack(players[lastCall.p].field[k])
    /\ \E k \in 1..Len(players[Other(lastCall.p)].field) :
          Fresh(players[Other(lastCall.p)].field[k], FireDrake)

\* C13: every refused call adds an entry to the match log: each playCard
\* that returns false (hand index, mana, full field), each endTurn that
\* returns false (not the caller's turn) and each processAttack that returns
\* false (an invalid attacker index included).
C13_EveryRefusalIsLogged ==
    \A p \in 0..1 :
        /\ \A cardIndex \in Indexes(players[p].hand) : \A cost \in Costs :
              ~playCard(This, p, cardIndex, Omitted, cost).ret =>
                  playCard(This, p, cardIndex, Omitted, cost).g.gameLog # gameLog
        /\ ~endTurn(This, p).ret => endTurn(This, p).g.gameLog # gameLog
        /\ \A attackerIndex \in Indexes(players[p].field),
              targetIndex \in Indexes(players[Other(p)].field) :
              ~processAttack(This, p, attackerIndex, targetIndex).ret =>
                  processAttack(This, p, attackerIndex, targetIndex).g.gameLog # gameLog

-----------------------------------------------------------------------------
(* Game over *)

\* deck data outside the catalogue: creatures with 'Battlecry: Damage' and
\* with 'Trample'
Raider == Template("Raider", 1, "creature", 1, 1, "Battlecry: Damage")
WarBoar == Template("War Boar", 1, "creature", 2, 2, "Trample")

\* Player 1 to move on turn 1 at 1 health: player 0 has played six damage
\* spells on player 1 and War Boar, and ended the turn.
SpellDuel ==
    After(NewGame,
          <<DoInit(0, <<Meteor, DrawPower, DrawPower, DrawPower, DrawPower, Meteor,
                        Meteor, Meteor, LightningBolt, ArcaneMissile, WarBoar,
                        FireSprite, Raider, ArcaneMissile>> \o Filler(3)),
            DoInit(1, <<Meteor, Meteor, Meteor, DrawPower, DrawPower, Meteor,
                        LightningBolt, ArcaneMissile, Peasant, HealingTouch,
                        ArcaneMissile>> \o Filler(3))>>
          \o [k \in 1..11 |-> DoPlay(0, 0, Opponent, Num(0))] \o <<DoEnd(0)>>)

\* Both players at 1 health, brought there by each other's spells.  Player 0
\* to move on turn 2 with 2 mana, War Boar (Trample) on the field, able to
\* attack, and Fire Sprite (Burn), Raider and Arcane Missile in hand; player
\* 1 has Peasant on the field, tapped, and Healing Touch in hand, with Arcane
\* Missile next in the deck.
BrinkBoard ==
    After(SpellDuel, [k \in 1..9 |-> DoPlay(1, 0, Opponent, Num(0))] \o <<DoEnd(1)>>)

\* The game after player 0's Arcane Missile has brought player 1 to -1 and
\* player 0 has ended the turn: the game is over, player 0 has won, and
\* player 1 is to move with Healing Touch and Arcane Missile in hand.
OverBoard == After(BrinkBoard, <<DoPlay(0, 2, Opponent, Omitted), DoEnd(0)>>)

SpecOver == StartsIn({BrinkBoard, OverBoard}) /\ [][Next]_vars

\* C14: whenever a player's health is 0 or less the game is over; and in the
\* step in which gameOver becomes true, the winner is the player other than
\* the one whose health fell to 0 or less in that step.  The steps are the
\* attack on a player, Trample, a damage spell on a player, Battlecry damage
\* and Burn at the start of a turn.
C14_GameOverAtZeroHealth ==
    /\ []((\E p \in 0..1 : players[p].health <= 0) => gameOver)
    /\ [][(~gameOver /\ gameOver') =>
              \E p \in 0..1 : /\ players[p].health > 0
                              /\ players'[p].health <= 0
                              /\ winner' = Other(p)]_vars

\* an accepted endTurn has just ended the game: Burn brought the player whose
\* turn began to 0 health, and the other player has won
C14_Witness ==
    /\ lastCall.op = "endTurn"
    /\ lastCall.ret
    /\ gameOver
    /\ players[currentTurn].health <= 0
    /\ winner = Other(currentTurn)
    /\ \E k \in 1..Len(gameLog) : gameLog[k].message[1] = "Burn deals damage"

\* C15: once gameOver is true it stays true and winner keeps its value, under
\* every later call.
C15_GameOverIsLatched == [][gameOver => (gameOver' /\ winner' = winner)]_vars

\* the game is over and a later call has changed a health total: the
\* winner's own health is 0 or less, or the loser's health is above 0 again
C15_Witness ==
    /\ gameOver
    /\ lastCall.ret
    /\ \/ players[winner].health <= 0
       \/ players[Other(winner)].health > 0

-----------------------------------------------------------------------------
(* Mana *)

\* the costs a caller of playCard passes in place of the card's own: none,
\* or a number, negative included
Overrides == {Omitted, Num(-1), Num(0), Num(1)}

\* the interface calls, playCard with a cost override among them
NextAnyCost ==
    \/ \E p \in 0..1, d \in 1..Len(Decks) : InitPlayerDeck(p, d)
    \/ \E p \in 0..1 : \E cardIndex \in -1..Len(players[p].hand) :
          \E target \in PlayTargets(p, cardIndex) : \E cost \in Overrides :
              PlayCard(p, cardIndex, target, cost)
    \/ \E p \in 0..1 : \E attackerIndex \in -1..Len(players[p].field) :
          \E targetIndex \in -2..Len(players[Other(p)].field) :
              ProcessAttack(p, attackerIndex, targetIndex)
    \/ \E p \in 0..1 : EndTurn(p)

SpecMana == StartsIn({TauntBoard}) /\ [][NextAnyCost]_vars

\* C17: for each player 0 <= mana <= maxMana <= 10, whatever calls of endTurn
\* and playCard are made, calls of playCard that pass a cost override of any
\* integer value among them.
C17_ManaWithinBounds ==
    \A p \in 0..1 :
        /\ 0 <= players[p].mana
        /\ players[p].mana <= players[p].maxMana
        /\ players[p].maxMana <= ManaCap

-----------------------------------------------------------------------------
(* The matchmaking server.  A handler is a pure operator over a lobby       *)
(* record (the queue, the Map of games, the sockets and the messages the    *)
(* handler has emitted).  The gameId socket.id + '-' + opponentId is the    *)
(* pair of the two ids.                                                     *)

Lobby ==
    [queue |-> matchmakingQueue, games |-> activeGames, sockets |-> sockets,
     outbox |-> <<>>]

\* deck: null
NoDeck == <<>>

\* socket.emit(event, data) on socket `to`: sent while the socket is connected
emit(L, to, event, data) ==
    IF L.sockets[to] = "connected"
    THEN [L EXCEPT !.outbox = Append(@, [to |-> to, event |-> event, data |-> data])]
    ELSE L

\* game.player1.id === socket.id || game.player2.id === socket.id
involves(game, s) == game.player1.id = s \/ game.player2.id = s

\* the other player of a game that involves s
opponentOf(game, s) == IF game.player1.id = s THEN game.player2 ELSE game.player1

\* the value findMatch stores under gameId; firstTold (history) is the socket
\* sent yourTurn: true and starts (history) counts the gameStart events
newGame(s, opponentId) ==
    [gameId |-> <<s, opponentId>>,
     player1 |-> [id |-> s, ready |-> FALSE, deck |-> NoDeck],
     player2 |-> [id |-> opponentId, ready |-> FALSE, deck |-> NoDeck],
     currentTurn |-> s, firstTold |-> s, starts |-> 0]

\* activeGames.set(gameId, game): an existing key keeps its place
mapSet(games, game) ==
    IF \E k \in 1..Len(games) : games[k].gameId = game.gameId
    THEN [k \in 1..Len(games) |->
             IF games[k].gameId = game.gameId THEN game ELSE games[k]]
    ELSE Append(games, game)

\* findMatch, an opponent found: the game is stored and both are notified
matchFound(L, s, opponentId) ==
    emit(emit([L EXCEPT !.games = mapSet(@, newGame(s, opponentId))],
              s, "matchFound",
              [gameId |-> <<s, opponentId>>, opponentId |-> opponentId, yourTurn |-> TRUE]),
         opponentId, "matchFound",
         [gameId |-> <<s, opponentId>>, opponentId |-> s, yourTurn |-> FALSE])

\* findMatch: matchmakingQueue.push(socket.id); socket.emit('searching')
enqueue(L, s) == emit([L EXCEPT !.queue = Append(@, s)], s, "searching", <<>>)

\* findMatch pairing with the oldest entry without taking it off the queue (a
\* faulty variant, kept to compare findMatch against)
findMatchKeepsWaiting(L, s) ==
    IF \E k \in 1..Len(L.queue) : L.queue[k] = s THEN L
    ELSE IF Len(L.queue) > 0
    THEN IF L.sockets[Head(L.queue)] = "connected"
         THEN matchFound(L, s, Head(L.queue))
         ELSE enqueue([L EXCEPT !.queue = Tail(@)], s)
    ELSE enqueue(L, s)

\* findMatch queueing every socket that is not waiting (a faulty variant,
\* kept to compare findMatch against)
findMatchAlwaysQueues(L, s) ==
    IF \E k \in 1..Len(L.queue) : L.queue[k] = s THEN L
    ELSE enqueue(L, s)

\* socket.on('findMatch')
findMatch(L, s) ==
    IF \E k \in 1..Len(L.queue) : L.queue[k] = s THEN L
    ELSE IF Len(L.queue) > 0
    THEN IF L.sockets[Head(L.queue)] = "connected"
         THEN matchFound([L EXCEPT !.queue = Tail(@)], s, Head(L.queue))
         ELSE enqueue([L EXCEPT !.queue = Tail(@)], s)
    ELSE enqueue(L, s)

\* matchmakingQueue.indexOf(id): the 0-based place of the first entry equal to
\* id, -1 with none
indexOf(queue, id) ==
    IF \E k \in 1..Len(queue) : queue[k] = id
    THEN (CHOOSE k \in 1..Len(queue) :
              queue[k] = id /\ \A j \in 1..(k - 1) : queue[j] # id) - 1
    ELSE -1

\* cancelMatch leaving the queue as it is (a faulty variant, kept to compare
\* leaveQueue against)
leaveQueueStays(L, s) == L

\* socket.on('cancelMatch'), and the same lines of socket.on('disconnect')
leaveQueue(L, s) ==
    IF indexOf(L.queue, s) > -1
    THEN [L EXCEPT !.queue = RemoveAt(@, indexOf(L.queue, s))]
    ELSE L

\* deckSelected, one game of the forEach: the deck is stored, the flag set
deckStored(game, s, deck) ==
    IF game.player1.id = s
    THEN [game EXCEPT !.player1.deck = deck, !.player1.ready = TRUE]
    ELSE [game EXCEPT !.player2.deck = deck, !.player2.ready = TRUE]

\* io.to(gameId).emit('gameAction', {type: 'gameStart', ...}): to the two
\* sockets that joined the room
gameStart(L, k) ==
    emit(emit([L EXCEPT !.games[k].starts = @ + 1],
              L.games[k].player1.id, "gameAction",
              [type |-> "gameStart", player1Deck |-> L.games[k].player1.deck,
               player2Deck |-> L.games[k].player2.deck,
               firstPlayer |-> L.games[k].player1.id]),
         L.games[k].player2.id, "gameAction",
         [type |-> "gameStart", player1Deck |-> L.games[k].player1.deck,
          player2Deck |-> L.games[k].player2.deck,
          firstPlayer |-> L.games[k].player1.id])

\* deckSelected, one game of the forEach, from 'Notify opponent' on
deckNotified(L, s, k) ==
    IF L.games[k].player1.ready /\ L.games[k].player2.ready
    THEN gameStart(emit(L, opponentOf(L.games[k], s).id, "opponentReady", <<>>), k)
    ELSE emit(L, opponentOf(L.games[k], s).id, "opponentReady", <<>>)

\* socket.on('gameAction'), action 'deckSelected': the forEach from game k on
RECURSIVE deckSelected(_, _, _, _)
deckSelected(L, s, deck, k) ==
    IF k > Len(L.games) THEN L
    ELSE IF involves(L.games[k], s)
    THEN deckSelected(deckNotified([L EXCEPT !.games[k] = deckStored(@, s, deck)], s, k),
                      s, deck, k + 1)
    ELSE deckSelected(L, s, deck, k + 1)

\* socket.on('gameAction'), any other action: the forEach from game k on
RECURSIVE forward(_, _, _, _)
forward(L, s, data, k) ==
    IF k > Len(L.games) THEN L
    ELSE IF involves(L.games[k], s)
    THEN forward(emit(L, opponentOf(L.games[k], s).id, "gameAction", data), s, data, k + 1)
    ELSE forward(L, s, data, k + 1)

\* socket.on('gameAction')
gameAction(L, s, data) ==
    IF data.action = "deckSelected" THEN deckSelected(L, s, data.deck, 1)
    ELSE forward(L, s, data, 1)

\* the forEach of socket.on('disconnect') without activeGames.delete (a
\* faulty variant, kept to compare abandon against)
RECURSIVE abandonKeepsGames(_, _, _)
abandonKeepsGames(L, s, k) ==
    IF k > Len(L.games) THEN L
    ELSE IF involves(L.games[k], s)
    THEN abandonKeepsGames(
             emit(L, opponentOf(L.games[k], s).id, "opponentDisconnected", <<>>),
             s, k + 1)
    ELSE abandonKeepsGames(L, s, k + 1)

\* socket.on('disconnect'), the forEach: the opponents of s are told, from
\* game k on, and the games of s deleted
RECURSIVE abandon(_, _, _)
abandon(L, s, k) ==
    IF k > Len(L.games)
    THEN [L EXCEPT !.games = SelectSeq(@, LAMBDA game : ~involves(game, s))]
    ELSE IF involves(L.games[k], s)
    THEN abandon(emit(L, opponentOf(L.games[k], s).id, "opponentDisconnected", <<>>),
                 s, k + 1)
    ELSE abandon(L, s, k + 1)

\* socket.on('disconnect'): the socket has left io.sockets.sockets
disconnect(L, s) == abandon(leaveQueue([L EXCEPT !.sockets[s] = "gone"], s), s, 1)

\* io.on('connection')
connection(L, s) ==
    emit([L EXCEPT !.sockets[s] = "connected"], s, "connected", [playerId |-> s])

\* the payloads the client on socket s sends with gameAction: its deck, and
\* an action of the game
Payloads(s) ==
    {[action |-> "deckSelected", deck |-> <<"deck of", s>>],
     [action |-> "playCard", deck |-> NoDeck]}

\* the state after a handler that left lobby L
Leaves(L) ==
    /\ matchmakingQueue' = L.queue
    /\ activeGames' = L.games
    /\ sockets' = L.sockets
    /\ outbox' = L.outbox
    /\ UNCHANGED <<players, currentTurn, turnNumber, totalTurns, gameOver, winner,
                   gameLog, nextId, lastCall>>

\* the state after the handler of a message: a message that changed the
\* lobby or was answered counts against MaxServed
Serves(L) ==
    /\ L # Lobby => calls < MaxServed
    /\ Leaves(L)
    /\ calls' = IF L # Lobby THEN calls + 1 ELSE calls

\* a client connects: socket ids are fresh, taken in order
Connection(s) ==
    /\ sockets[s] = "new"
    /\ \A t \in 1..(s - 1) : sockets[t] # "new"
    /\ Leaves(connection(Lobby, s))
    /\ UNCHANGED calls

FindMatch(s) == sockets[s] = "connected" /\ Serves(findMatch(Lobby, s))

CancelMatch(s) == sockets[s] = "connected" /\ Serves(leaveQueue(Lobby, s))

GameAction(s, data) ==
    /\ sockets[s] = "connected"
    /\ Serves(gameAction(Lobby, s, data))

Disconnect(s) == sockets[s] = "connected" /\ Serves(disconnect(Lobby, s))

ServerNext ==
    \/ \E s \in 1..MaxSockets : Connection(s)
    \/ \E s \in 1..MaxSockets : FindMatch(s)
    \/ \E s \in 1..MaxSockets : CancelMatch(s)
    \/ \E s \in 1..MaxSockets : \E data \in Payloads(s) : GameAction(s, data)
    \/ \E s \in 1..MaxSockets : Disconnect(s)

\* the server from its start, no game being played
SpecServer == StartsIn({NewGame}) /\ [][ServerNext]_vars

\* s is waiting in the queue of lobby L
Queued(L, s) == \E k \in 1..Len(L.queue) : L.queue[k] = s

\* the games of lobby L other than the one stored under gameId
GamesBut(L, gameId) == SelectSeq(L.games, LAMBDA game : game.gameId # gameId)

\* lobby L holds one game under <<R, W>>, binding R and W with neither ready;
\* the oldest entry has left the queue, which holds neither R nor W; and R
\* and W have each been sent matchFound naming the other
Paired(L, R, W) ==
    /\ L.queue = Tail(matchmakingQueue)
    /\ ~Queued(L, R)
    /\ ~Queued(L, W)
    /\ Cardinality({k \in 1..Len(L.games) : L.games[k].gameId = <<R, W>>}) = 1
    /\ \A k \in 1..Len(L.games) :
          L.games[k].gameId = <<R, W>> =>
              /\ {L.games[k].player1.id, L.games[k].player2.id} = {R, W}
              /\ ~L.games[k].player1.ready
              /\ ~L.games[k].player2.ready
    /\ GamesBut(L, <<R, W>>) = GamesBut(Lobby, <<R, W>>)
    /\ Len(L.outbox) = 2
    /\ \A a \in {R, W} : \E i \in 1..2 :
          /\ L.outbox[i].to = a
          /\ L.outbox[i].event = "matchFound"
          /\ L.outbox[i].data.gameId = <<R, W>>
          /\ L.outbox[i].data.opponentId = (IF a = R THEN W ELSE R)

\* C18: findMatch from a socket R that is not in the queue: with the queue
\* empty R is appended and sent 'searching'; with the queue not empty its
\* oldest entry W is removed and, W being connected, one game is stored
\* under R + '-' + W binding R and W with both ready flags false, R and W are
\* each sent matchFound naming the other, and neither is in the queue
\* afterwards.
C18_FindMatchPairsOldest ==
    \A R \in 1..MaxSockets :
        (sockets[R] = "connected" /\ ~Queued(Lobby, R)) =>
            IF matchmakingQueue = <<>>
            THEN /\ findMatch(Lobby, R).queue = <<R>>
                 /\ findMatch(Lobby, R).games = activeGames
                 /\ findMatch(Lobby, R).outbox
                        = <<[to |-> R, event |-> "searching", data |-> <<>>]>>
            ELSE sockets[Head(matchmakingQueue)] = "connected" =>
                     Paired(findMatch(Lobby, R), R, Head(matchmakingQueue))

\* findMatch has just paired two sockets while another game is in progress
C18_Witness ==
    /\ Len(outbox) = 2
    /\ outbox[1].event = "matchFound"
    /\ outbox[1].data.yourTurn
    /\ matchmakingQueue = <<>>
    /\ Len(activeGames) = 2
    /\ activeGames[2].gameId = <<outbox[1].to, outbox[2].to>>
    /\ activeGames[1].player1.ready

\* the gameStart events among the messages of the last handler
GameStarts ==
    {i \in 1..Len(outbox) :
        outbox[i].event = "gameAction" /\ "type" \in DOMAIN outbox[i].data}

\* C19: for each game the gameStart event is emitted exactly once over any
\* sequence of deckSelected messages from its two sockets: not before both
\* have submitted a deck, once when the second ready flag becomes true, and
\* never again; it carries both decks submitted and names as firstPlayer the
\* socket that was sent yourTurn: true.
C19_GameStartOnce ==
    /\ \A k \in 1..Len(activeGames) :
          activeGames[k].starts
              = (IF activeGames[k].player1.ready /\ activeGames[k].player2.ready
                 THEN 1 ELSE 0)
    /\ \A i \in GameStarts :
          \E k \in 1..Len(activeGames) :
              /\ involves(activeGames[k], outbox[i].to)
              /\ outbox[i].data.player1Deck = <<"deck of", activeGames[k].player1.id>>
              /\ outbox[i].data.player2Deck = <<"deck of", activeGames[k].player2.id>>
              /\ outbox[i].data.firstPlayer = activeGames[k].firstTold

\* C20: a gameAction other than deckSelected from a socket bound to a game is
\* sent as it came to the other socket of that game and to no one else, and
\* changes no ready flag, deck or queue entry; from a socket bound to no game
\* nothing is sent and nothing changes.
C20_RelayToOpponentOnly ==
    \A s \in 1..MaxSockets : \A data \in Payloads(s) :
        (sockets[s] = "connected" /\ data.action # "deckSelected") =>
            /\ gameAction(Lobby, s, data).queue = matchmakingQueue
            /\ gameAction(Lobby, s, data).games = activeGames
            /\ \A k \in 1..Len(activeGames) :
                  involves(activeGames[k], s) =>
                      gameAction(Lobby, s, data).outbox
                          = <<[to |-> opponentOf(activeGames[k], s).id,
                               event |-> "gameAction", data |-> data]>>
            /\ (\A k \in 1..Len(activeGames) : ~involves(activeGames[k], s)) =>
                  gameAction(Lobby, s, data).outbox = <<>>

\* the number of opponentDisconnected notifications sent to socket o among
\* the messages of lobby L
Notices(L, o) ==
    Cardinality({i \in 1..Len(L.outbox) :
        L.outbox[i].to = o /\ L.outbox[i].event = "opponentDisconnected"})

\* the games of the current state that bind sockets s and o
GamesOf(s, o) ==
    {k \in 1..Len(activeGames) :
        involves(activeGames[k], s) /\ involves(activeGames[k], o)}

\* every game binds two connected sockets
BoundAreConnected ==
    \A k \in 1..Len(activeGames) :
        /\ sockets[activeGames[k].player1.id] = "connected"
        /\ sockets[activeGames[k].player2.id] = "connected"

\* the disconnect of a socket removes every game that binds it and no other
\* game, and a socket it leaves bound to no game has its later gameAction
\* neither relayed nor answered with gameStart
DisconnectEndsGames(s) ==
    /\ disconnect(Lobby, s).games
           = SelectSeq(activeGames, LAMBDA game : ~involves(game, s))
    /\ \A o \in 1..MaxSockets : \A data \in Payloads(o) :
          (\A k \in 1..Len(disconnect(Lobby, s).games) :
               ~involves(disconnect(Lobby, s).games[k], o)) =>
              gameAction([disconnect(Lobby, s) EXCEPT !.outbox = <<>>], o, data)
                  = [disconnect(Lobby, s) EXCEPT !.outbox = <<>>]

QueueByFindMatch ==
    /\ \A s \in 1..MaxSockets :
          (Queued([queue |-> matchmakingQueue'], s) /\ ~Queued(Lobby, s)) =>
              outbox' = <<[to |-> s, event |-> "searching", data |-> <<>>]>>
    /\ \A i \in 1..Len(outbox') :
          (outbox'[i].event = "matchFound" /\ outbox'[i].data.yourTurn) =>
              /\ matchmakingQueue # <<>>
              /\ outbox'[i].data.opponentId = Head(matchmakingQueue)

\* C22: after cancelMatch or the disconnect of an id the id is not in the
\* queue and the other ids are queued in the order they were; cancelMatch by
\* an id that is not queued changes neither the queue nor the games; and
\* findMatch pairs a socket only with an id that is queued, which an id that
\* cancelled or disconnected is not until its own next findMatch.
C22_LeavingTheQueue ==
    /\ [](\A s \in 1..MaxSockets :
            sockets[s] = "connected" =>
                /\ ~Queued(leaveQueue(Lobby, s), s)
                /\ ~Queued(disconnect(Lobby, s), s)
                /\ leaveQueue(Lobby, s).queue
                       = SelectSeq(matchmakingQueue, LAMBDA q : q # s)
                /\ disconnect(Lobby, s).queue = leaveQueue(Lobby, s).queue
                /\ leaveQueue(Lobby, s).games = activeGames
                /\ ~Queued(Lobby, s) => leaveQueue(Lobby, s) = Lobby)
    /\ [](\A k \in 1..Len(matchmakingQueue) :
            sockets[matchmakingQueue[k]] = "connected")
    /\ [][QueueByFindMatch]_vars

\* a socket that was waiting has cancelled: two messages were served, no game
\* was ever made and the queue is empty again
C22_Witness ==
    /\ matchmakingQueue = <<>>
    /\ outbox = <<>>
    /\ activeGames = <<>>
    /\ calls = 2
    /\ \A s \in 1..MaxSockets : sockets[s] = "connected"

-----------------------------------------------------------------------------
(* The turn counters and the start of a turn *)

\* Player 0 to move on turn 2 with two Fire Sprites (Burn) on the field, four
\* cards in hand and an empty deck; player 1 has been burnt once, holds six
\* cards and has cards left in the deck.
BurnBoard ==
    After(NewGame,
          <<DoInit(0, <<FireSprite, FireSprite>> \o Filler(4)),
            DoInit(1, Filler(16)),
            DoPlay(0, 0, Omitted, Num(0)), DoPlay(0, 0, Omitted, Num(0)),
            DoEnd(0), DoEnd(1)>>)

\* The same eight rounds later: player 0 to move on turn 10 with maxMana 10,
\* player 1 with maxMana 9, ten cards in hand and cards left in the deck.
LateBoard == After(BurnBoard, Rounds(8))

SpecTurns == StartsIn({NewGame, BurnBoard, LateBoard, BrinkBoard}) /\ [][Next]_vars

\* what a step does to the three turn counters
TurnCounters ==
    IF lastCall'.op = "endTurn" /\ lastCall'.ret
    THEN /\ currentTurn' = 1 - currentTurn
         /\ totalTurns' = totalTurns + 1
         /\ turnNumber' = (IF currentTurn' = 0 THEN turnNumber + 1 ELSE turnNumber)
    ELSE UNCHANGED <<currentTurn, totalTurns, turnNumber>>

\* C23: each accepted endTurn flips currentTurn, adds 1 to totalTurns and
\* adds 1 to turnNumber exactly when the new currentTurn is 0; in every
\* reachable state totalTurns = 2 * (turnNumber - 1) + currentTurn + 1; and no
\* other call (playCard, processAttack, a refused endTurn) changes any of the
\* three.
C23_TurnCounters ==
    /\ [](totalTurns = 2 * (turnNumber - 1) + currentTurn + 1)
    /\ [][TurnCounters]_vars

\* both players have ended a turn since the start of turn 2: it is turn 3
C23_Witness ==
    /\ lastCall.op = "endTurn"
    /\ lastCall.ret
    /\ lastCall.p = 1
    /\ calls = 2
    /\ currentTurn = 0
    /\ turnNumber = 3
    /\ totalTurns = 5

\* the number of creatures with Burn on a field
Burners(field) == Cardinality({k \in 1..Len(field) : field[k].ability = "Burn"})

\* player p draws in game g: the deck is not empty and the hand not full
Draws(g, p) == Len(g.players[p].deck) > 0 /\ Len(g.players[p].hand) < HandLimit

\* the game after the endTurn of the player whose turn it is
Ended == endTurn(This, currentTurn).g

\* C24: on every accepted endTurn the incoming player's maxMana becomes
\* min(10, maxMana + 1) and mana the new maxMana, the incoming player's health
\* drops by the number of opposing creatures with Burn, the game being over
\* when it is then 0 or less, and one card moves from the front of the
\* incoming player's deck to the end of the hand when the deck is not empty
\* and the hand holds fewer than 10 cards, none otherwise; the outgoing
\* player's mana, maxMana, hand and deck are unchanged.
C24_NewTurn ==
    /\ endTurn(This, currentTurn).ret
    /\ Ended.players[Other(currentTurn)].maxMana
           = Min(10, players[Other(currentTurn)].maxMana + 1)
    /\ Ended.players[Other(currentTurn)].mana
           = Ended.players[Other(currentTurn)].maxMana
    /\ Ended.players[Other(currentTurn)].health
           = players[Other(currentTurn)].health - Burners(players[currentTurn].field)
    /\ Ended.players[Other(currentTurn)].health <= 0 => Ended.gameOver
    /\ Ended.players[Other(currentTurn)].hand
           = (IF Draws(This, Other(currentTurn))
              THEN Append(players[Other(currentTurn)].hand,
                          Head(players[Other(currentTurn)].deck))
              ELSE players[Other(currentTurn)].hand)
    /\ Ended.players[Other(currentTurn)].deck
           = (IF Draws(This, Other(currentTurn))
              THEN Tail(players[Other(currentTurn)].deck)
              ELSE players[Other(currentTurn)].deck)
    /\ \A f \in {"mana", "maxMana", "hand", "deck"} :
          Ended.players[currentTurn][f] = players[currentTurn][f]

\* a turn has just begun for a player who reached the cap, with a full hand
\* and a deck that is not empty, burnt by two creatures
C24_Witness ==
    /\ lastCall.op = "endTurn"
    /\ lastCall.ret
    /\ players[currentTurn].maxMana = ManaCap
    /\ players[currentTurn].mana = ManaCap
    /\ Len(players[currentTurn].hand) = HandLimit
    /\ Len(players[currentTurn].deck) > 0
    /\ Burners(players[Other(currentTurn)].field) = 2
    /\ Len(gameLog) > 1
    /\ gameLog[Len(gameLog) - 1].message[1] = "Burn deals damage"

-----------------------------------------------------------------------------
(* A damage spell with no target named *)

\* C25: a damage spell played through playCard with the target argument left
\* out lowers the opposing player's health by the spell's amount plus the
\* caster's spellPower and checks for the end of the game, exactly as with
\* the target 'opponent'.
C25_NoTargetHitsOpponent ==
    \A p \in 0..1 : \A s \in DamageSpells(p) :
        /\ playCard(This, p, s[1], Omitted, Omitted).g.players[Other(p)].health
               = players[Other(p)].health - s[2]
        /\ playCard(This, p, s[1], Omitted, Omitted)
               = playCard(This, p, s[1], Opponent, Omitted)

-----------------------------------------------------------------------------
(* Trample *)

\* C26: in a combat whose attacker has Trample and whose damage is more than
\* the health of the target creature, the excess (the attacker's damage less
\* the target's health before the hit) is taken from the defending player's
\* health; with no excess the defending player's health is unchanged.
C26_TrampleExcess ==
    \A p \in 0..1 :
        \A a \in 0..(Len(players[p].field) - 1) :
            \A t \in 0..(Len(players[Other(p)].field) - 1) :
                (/\ players[p].field[a + 1].ability = "Trample"
                 /\ processAttack(This, p, a, t).ret
                 /\ Mortal(players[Other(p)].field[t + 1])) =>
                    processAttack(This, p, a, t).g.players[Other(p)].health
                        = players[Other(p)].health
                            - Max(0, players[p].field[a + 1].attack
                                         - players[Other(p)].field[t + 1].health)

-----------------------------------------------------------------------------
(* First Strike, Poison, summoning and Freeze *)

\* Player 0 to move on turn 2 with mana 2, the creatures of field0 on the
\* field, untapped, and the cards of hand0 in hand; player 1 has the
\* creatures of field1 on the field, all played last turn.  field0 and hand0
\* are six cards together and field1 at most six.
ArenaBoard(field0, hand0, field1) ==
    After(NewGame,
          <<DoInit(0, field0 \o hand0 \o Filler(4)), DoInit(1, field1 \o Filler(6))>>
          \o [k \in 1..Len(field0) |-> DoPlay(0, 0, Omitted, Num(0))]
          \o <<DoEnd(0)>>
          \o [k \in 1..Len(field1) |-> DoPlay(1, 0, Omitted, Num(0))]
          \o <<DoEnd(1)>>)

\* Combat.  Player 0: Demon Hunter (First Strike, 7/3), Viper (Poison, 1/1)
\* and Warden (immune, 2/2).  Player 1, all tapped: Viper, Ancient Tree (4/7)
\* and Paladin (Divine Shield, 2/3).  Demon Hunter is a catalogue card; Viper
\* and Warden are deck data outside the catalogue.
SpecArena ==
    /\ StartsIn({ArenaBoard(
           <<Template("Demon Hunter", 5, "creature", 7, 3, "First Strike"),
             Template("Viper", 1, "creature", 1, 1, "Poison"),
             [Template("Warden", 1, "creature", 2, 2, "") EXCEPT !.immune = TRUE]>>,
           Filler(3),
           <<Template("Viper", 1, "creature", 1, 1, "Poison"), AncientTree, Paladin>>)})
    /\ [][Next]_vars

\* Summoning and Freeze.  Player 0: Ice Elemental (Freeze enemy, 3/5) on the
\* field; Forest Wolf (Rush), Goblin Scout (Quick), Charger (Charge), Courier
\* (Haste) and Frost Bolt in hand.  Player 1: Ancient Tree, tapped, and
\* Bulwark (Charge, 1/5), which entered untapped.  The other starting state
\* has Grave Caller (Summon skeletons) and Squire in player 0's hand.  Ice
\* Elemental is a catalogue card; Charger, Courier and Bulwark are deck data
\* outside the catalogue.
SpecSummon ==
    /\ StartsIn({ArenaBoard(
                     <<Template("Ice Elemental", 4, "creature", 3, 5, "Freeze enemy")>>,
                     <<ForestWolf, GoblinScout,
                       Template("Charger", 1, "creature", 1, 1, "Charge"),
                       Template("Courier", 1, "creature", 1, 1, "Haste"),
                       FrostBolt>>,
                     <<AncientTree, Template("Bulwark", 1, "creature", 1, 5, "Charge")>>),
                 CrowdBoard})
    /\ [][Next]_vars

\* the attacks of creatures on creatures in the current state: the attacking
\* player, the 0-based place of the attacker and that of the target
Duels ==
    {d \in (0..1) \X (0..(FieldLimit - 1)) \X (0..(FieldLimit - 1)) :
        d[2] < Len(players[d[1]].field) /\ d[3] < Len(players[Other(d[1])].field)}

Attacker(d) == players[d[1]].field[d[2] + 1]
Target(d) == players[Other(d[1])].field[d[3] + 1]
Fought(d) == processAttack(This, d[1], d[2], d[3])

\* the health the attacker and the target of duel d are left with when the
\* attack has been made (0 for a creature that left the field)
AttackerLeft(d) == HealthIn(Fought(d).g, d[1], Attacker(d).id)
TargetLeft(d) == HealthIn(Fought(d).g, Other(d[1]), Target(d).id)

\* first has First Strike and second has not
StrikesFirst(first, second) ==
    first.ability = "First Strike" /\ second.ability # "First Strike"

\* C27: in a combat where exactly one side has First Strike that side's
\* damage is applied first and the other strikes back only if it survived: a
\* first striker that brings the other creature to 0 health keeps its own
\* health and stays on the field; when neither or both have First Strike
\* the damage of both sides is applied.
C27_FirstStrike ==
    \A d \in Duels :
        (Fought(d).ret /\ ~Immune(Target(d))) =>
            /\ (/\ StrikesFirst(Attacker(d), Target(d))
                /\ Mortal(Target(d))
                /\ Attacker(d).attack >= Target(d).health) =>
                   AttackerLeft(d) = Attacker(d).health
            /\ (/\ StrikesFirst(Target(d), Attacker(d))
                /\ Mortal(Attacker(d))
                /\ Target(d).attack >= Attacker(d).health) =>
                   TargetLeft(d) = Target(d).health
            /\ (/\ ~StrikesFirst(Attacker(d), Target(d))
                /\ ~StrikesFirst(Target(d), Attacker(d))
                /\ Mortal(Attacker(d))
                /\ Mortal(Target(d))) =>
                   /\ AttackerLeft(d) <= Max(0, Attacker(d).health - Target(d).attack)
                   /\ TargetLeft(d) <= Max(0, Target(d).health - Attacker(d).attack)

\* the two creatures of duel d after the strikes of the combat, before the
\* deadly abilities are looked at
Struck(d) ==
    strikes(shields(Attacker(d), Target(d)).attacker,
            shields(Attacker(d), Target(d)).target,
            takeDamage(shields(Attacker(d), Target(d)).target,
                       shields(Attacker(d), Target(d)).attackerDamage),
            takeDamage(shields(Attacker(d), Target(d)).attacker,
                       shields(Attacker(d), Target(d)).targetDamage))

\* the damage the target and the attacker of duel d took from the other's
\* strike: none in the combat with an immune target, which is called off
TargetTook(d) ==
    IF Immune(Target(d)) THEN 0 ELSE Target(d).health - Struck(d).target.health
AttackerTook(d) ==
    IF Immune(Target(d)) THEN 0 ELSE Attacker(d).health - Struck(d).attacker.health

\* C28: in a combat a creature's health is forced to 0 by the other side's
\* Poison, Deathtouch or instant kill exactly when that other creature dealt
\* it damage in this combat: not when a Divine Shield absorbed the hit, nor
\* when the creature is immune, nor when the carrier was killed by a First
\* Strike before it could strike.
C28_DeadlyOnlyOnDamage ==
    \A d \in Duels :
        Fought(d).ret =>
            /\ (Attacker(d).ability \in {"Poison", "Deathtouch", "Instant kill"}
                \/ Attacker(d).instantKill) =>
                   ((TargetLeft(d) = 0) <=> (TargetTook(d) > 0))
            /\ Target(d).ability \in {"Poison", "Deathtouch"} =>
                   ((AttackerLeft(d) = 0) <=> (AttackerTook(d) > 0))

\* the creature cards the current state lets a player put into play: the
\* player and the 0-based place of the card in the hand
Summons ==
    {s \in (0..1) \X (0..(HandLimit - 1)) :
        /\ s[2] < Len(players[s[1]].hand)
        /\ players[s[1]].hand[s[2] + 1].type = "creature"
        /\ playCard(This, s[1], s[2], Omitted, Omitted).ret}

Summoned(s) == playCard(This, s[1], s[2], Omitted, Omitted).g
\* the 0-based place on the field the card of s comes to
Place(s) == Len(players[s[1]].field)
\* the game after the summoning with the new creature reset for a turn
Rested(s) ==
    [Summoned(s) EXCEPT !.players[s[1]].field[Place(s) + 1] = resetForTurn(@)]
\* -1 for the opposing player, and the places of the opposing creatures
TargetsOf(s) == -1..(Len(Summoned(s).players[Other(s[1])].field) - 1)
\* the attack of the creature at 0-based place k of s's player on t is accepted
Accepts(g, s, k, t) == processAttack(g, s[1], k, t).ret

\* a creature that stays on the field becomes untapped, or loses the
\* restriction to creatures, only by an accepted endTurn of the opponent
ReadiedByTurn ==
    \A p \in 0..1 : \A k \in 1..Len(players[p].field) :
        \A k2 \in 1..Len(players'[p].field) :
            (/\ players[p].field[k].id = players'[p].field[k2].id
             /\ \/ players[p].field[k].tapped /\ ~players'[p].field[k2].tapped
                \/ /\ players[p].field[k].canOnlyAttackCreatures
                   /\ ~players'[p].field[k2].canOnlyAttackCreatures) =>
                (lastCall'.op = "endTurn" /\ lastCall'.ret /\ lastCall'.p = Other(p))

\* C29: a creature put into play with none of Rush, Quick, Charge and Haste
\* is not accepted as an attacker before its owner's next turn resets it; one
\* with Rush is accepted at once against creatures (as a reset creature would
\* be) but never against the opposing player before that reset; one with
\* Quick, Charge or Haste is accepted at once against every target a reset
\* creature would be accepted against; the Skeleton tokens of 'Summon
\* skeletons' enter play tapped.
C29_SummoningSickness ==
    /\ [](\A s \in Summons :
            /\ Summoned(s).players[s[1]].field[Place(s) + 1].id
                   = players[s[1]].hand[s[2] + 1].id
            /\ players[s[1]].hand[s[2] + 1].ability \notin {"Rush", "Quick", "Charge", "Haste"} =>
                   /\ Summoned(s).players[s[1]].field[Place(s) + 1].tapped
                   /\ \A t \in TargetsOf(s) : ~Accepts(Summoned(s), s, Place(s), t)
            /\ players[s[1]].hand[s[2] + 1].ability = "Rush" =>
                   /\ ~Accepts(Summoned(s), s, Place(s), -1)
                   /\ Summoned(s).players[s[1]].field[Place(s) + 1].canOnlyAttackCreatures
                   /\ \A t \in TargetsOf(s) \ {-1} :
                          Accepts(Summoned(s), s, Place(s), t) = Accepts(Rested(s), s, Place(s), t)
            /\ players[s[1]].hand[s[2] + 1].ability \in {"Quick", "Charge", "Haste"} =>
                   \A t \in TargetsOf(s) :
                       Accepts(Summoned(s), s, Place(s), t) = Accepts(Rested(s), s, Place(s), t)
            /\ \A k \in (Place(s) + 2)..Len(Summoned(s).players[s[1]].field) :
                   /\ Summoned(s).players[s[1]].field[k].name = "Skeleton"
                   /\ Summoned(s).players[s[1]].field[k].tapped
                   /\ \A t \in TargetsOf(s) : ~Accepts(Summoned(s), s, k - 1, t))
    /\ [][ReadiedByTurn]_vars

\* Forest Wolf (Rush) was put into play and has at once attacked a creature:
\* it is tapped and still restricted to creatures
C29_Witness ==
    /\ lastCall = Call("processAttack", 0, TRUE, "")
    /\ calls = 2
    /\ \E k \in 1..Len(players[0].field) :
          /\ players[0].field[k].name = "Forest Wolf"
          /\ players[0].field[k].tapped
          /\ players[0].field[k].hasAttackedThisTurn
          /\ players[0].field[k].canOnlyAttackCreatures

\* the game when the turn of player p has begun: the opponent's endTurn
Begun(p) == endTurn(This, Other(p)).g
\* the game when the turn of player p after that one has begun
BegunAgain(p) == endTurn(endTurn(Begun(p), p).g, Other(p)).g

\* a creature that stays on the field stops being frozen only by an accepted
\* endTurn of the opponent
ThawedByTurn ==
    \A p \in 0..1 : \A k \in 1..Len(players[p].field) :
        \A k2 \in 1..Len(players'[p].field) :
            (/\ players[p].field[k].id = players'[p].field[k2].id
             /\ players[p].field[k].frozen
             /\ ~players'[p].field[k2].frozen) =>
                (lastCall'.op = "endTurn" /\ lastCall'.ret /\ lastCall'.p = Other(p))

\* C30: a frozen creature is not accepted as an attacker; the reset at the
\* start of its owner's next turn clears frozen and leaves tapped as it was
\* (a creature that was not frozen is untapped), and the reset of the turn
\* after that untaps it: a tapped creature that is frozen misses exactly one
\* turn of its owner.
C30_Freeze ==
    /\ [](\A p \in 0..1 : \A k \in 1..Len(players[p].field) :
            /\ players[p].field[k].frozen =>
                   \A t \in -1..(Len(players[Other(p)].field) - 1) :
                       ~processAttack(This, p, k - 1, t).ret
            /\ currentTurn = Other(p) =>
                   /\ Len(Begun(p).players[p].field) = Len(players[p].field)
                   /\ Begun(p).players[p].field[k].id = players[p].field[k].id
                   /\ ~Begun(p).players[p].field[k].frozen
                   /\ Begun(p).players[p].field[k].tapped
                          = (players[p].field[k].frozen /\ players[p].field[k].tapped)
                   /\ Begun(p).players[p].field[k].tapped =>
                          \A t \in -1..(Len(players[Other(p)].field) - 1) :
                              ~processAttack(Begun(p), p, k - 1, t).ret
                   /\ BegunAgain(p).players[p].field[k].id = players[p].field[k].id
                   /\ canAttack(BegunAgain(p).players[p].field[k]))
    /\ [][ThawedByTurn]_vars

\* Ice Elemental froze the tapped Ancient Tree and player 0 ended the turn:
\* the Tree is no longer frozen and is still tapped in its owner's turn
C30_Witness ==
    /\ lastCall = Call("endTurn", 0, TRUE, "")
    /\ calls = 2
    /\ currentTurn = 1
    /\ \E n \in 1..Len(gameLog) : gameLog[n].message = <<"is frozen!", "Ancient Tree">>
    /\ \E k \in 1..Len(players[1].field) :
          /\ players[1].field[k].name = "Ancient Tree"
          /\ players[1].field[k].tapped
          /\ ~players[1].field[k].frozen

-----------------------------------------------------------------------------
(* A target index that names nothing *)

\* C31: processAttack with a targetIndex that is neither -1 nor an index
\* into the opposing field (below -1, or at or beyond the field's length) is
\* refused and changes nothing: the attacker is not tapped, not marked as
\* having attacked and keeps its stealth.
C31_BadTargetRefused ==
    \A p \in 0..1 : \A attackerIndex \in 0..(Len(players[p].field) - 1) :
        \A targetIndex \in {-2, Len(players[Other(p)].field)} :
            /\ ~processAttack(This, p, attackerIndex, targetIndex).ret
            /\ processAttack(This, p, attackerIndex, targetIndex).g.players = players

-----------------------------------------------------------------------------
(* After the game is over *)

\* C32: once gameOver is true no playCard, processAttack or endTurn call is
\* accepted, and the turn, both players' health and mana and every zone stay
\* as they are.
C32_GameOverIsTerminal ==
    gameOver =>
        \A p \in 0..1 :
            /\ ~endTurn(This, p).ret
            /\ endTurn(This, p).g.players = players
            /\ endTurn(This, p).g.currentTurn = currentTurn
            /\ \A cardIndex \in 0..(Len(players[p].hand) - 1) :
                  /\ ~playCard(This, p, cardIndex, Omitted, Omitted).ret
                  /\ playCard(This, p, cardIndex, Omitted, Omitted).g.players = players
            /\ \A attackerIndex \in 0..(Len(players[p].field) - 1) :
                  \A targetIndex \in -1..(Len(players[Other(p)].field) - 1) :
                      /\ ~processAttack(This, p, attackerIndex, targetIndex).ret
                      /\ processAttack(This, p, attackerIndex, targetIndex).g.players = players

-----------------------------------------------------------------------------
(* The zones of a card *)

\* the cards of player p: hand, deck, field and graveyard
Zones(p) ==
    players[p].hand \o players[p].deck \o players[p].field \o players[p].graveyard
\* the instances among cards
Ids(cards) == {cards[k].id : k \in 1..Len(cards)}

\* a card that was on the field and has Resurrect has gone to p's graveyard
\* in this step under the given name
ResurrectDied(p, name) ==
    \E k \in 1..Len(players'[p].graveyard) :
        /\ players'[p].graveyard[k].id \in Ids(players[p].field)
        /\ players'[p].graveyard[k].ability = "Resurrect"
        /\ players'[p].graveyard[k].name = name

\* what a call other than initPlayerDeck does to the cards of a player: every
\* instance is kept, and a new one is a Skeleton token on the field or the
\* new card of a Resurrect creature, in the hand
Conserved ==
    lastCall'.op # "initPlayerDeck" =>
        \A p \in 0..1 :
            /\ Ids(Zones(p)) \subseteq Ids(Zones(p)')
            /\ \A k \in 1..Len(players'[p].deck) :
                  players'[p].deck[k].id \in Ids(players[p].deck)
            /\ \A k \in 1..Len(players'[p].graveyard) :
                  players'[p].graveyard[k].id \in Ids(Zones(p))
            /\ \A k \in 1..Len(players'[p].field) :
                  players'[p].field[k].id \notin Ids(Zones(p)) =>
                      /\ players'[p].field[k].name = "Skeleton"
                      /\ lastCall'.op = "playCard"
            /\ \A k \in 1..Len(players'[p].hand) :
                  players'[p].hand[k].id \notin Ids(Zones(p)) =>
                      ResurrectDied(p, players'[p].hand[k].name)
            /\ Len(Zones(p)') - Len(Zones(p))
                   = Cardinality(Ids(Zones(p)') \ Ids(Zones(p)))

\* C33: each card instance of a player is in exactly one of the player's
\* hand, deck, field and graveyard, and belongs to one player; a draw, a
\* creature played, a spell cast and the death sweep move instances between
\* zones without losing or duplicating any, and the number of a player's
\* cards grows only by one per Skeleton token summoned and one per new card
\* a Resurrect creature puts in the hand.
C33_CardsConserved ==
    /\ [](/\ \A p \in 0..1 : Cardinality(Ids(Zones(p))) = Len(Zones(p))
          /\ Ids(Zones(0)) \cap Ids(Zones(1)) = {})
    /\ [][Conserved]_vars

\* Grave Caller has just been played onto a field of five: it is on the
\* field with one Skeleton token after it, and has left the hand
C33_Witness ==
    /\ lastCall = Call("playCard", 0, TRUE, "")
    /\ Len(players[0].field) = FieldLimit
    /\ players[0].field[FieldLimit - 1].name = "Grave Caller"
    /\ players[0].field[FieldLimit].name = "Skeleton"
    /\ \A k \in 1..Len(players[0].hand) : players[0].hand[k].name # "Grave Caller"

-----------------------------------------------------------------------------
(* No dead creature is left on a field *)

\* Player 0 to move on turn 2 with 2 mana, a Poison creature on the field,
\* able to attack, and an 'AOE damage' creature and Arcane Missile in hand;
\* player 1 has Peasant and Ancient Tree on the field, both just played.
\* Viper and Storm Adept are deck data outside the catalogue.
SpecSweep ==
    /\ StartsIn({ArenaBoard(
                     <<Template("Viper", 1, "creature", 1, 1, "Poison")>>,
                     <<Template("Storm Adept", 1, "creature", 1, 1, "AOE damage"),
                       ArcaneMissile>>,
                     <<Peasant, AncientTree>>)})
    /\ [][Next]_vars

\* every creature that leaves a field in the step is in its owner's graveyard
BuriedWhenGone ==
    \A p \in 0..1 : \A k \in 1..Len(players[p].field) :
        players[p].field[k].id \notin Ids(players'[p].field) =>
            players[p].field[k].id \in Ids(players'[p].graveyard)

\* C34: after every call no creature on either field has health 0 or less:
\* a creature brought to 0 by combat, by a damage spell aimed at it, by 'AOE
\* damage' or by Poison or Deathtouch is in its owner's graveyard when the
\* call returns.
C34_NoDeadOnField ==
    /\ [](\A p \in 0..1 : \A k \in 1..Len(players[p].field) :
              players[p].field[k].health > 0)
    /\ [][BuriedWhenGone]_vars

\* Storm Adept's 'AOE damage' has killed Peasant and left Ancient Tree hurt,
\* and the Poison creature has then killed the Tree and died of its blow:
\* player 1's field is empty and both creatures are in the graveyard
C34_Witness ==
    /\ lastCall = Call("processAttack", 0, TRUE, "")
    /\ calls = 2
    /\ players[1].field = <<>>
    /\ Len(players[1].graveyard) = 2
    /\ players[1].graveyard[1].name = "Peasant"
    /\ players[1].graveyard[2].name = "Ancient Tree"
    /\ players[1].graveyard[2].health = 0
    /\ \E k \in 1..Len(players[0].graveyard) : players[0].graveyard[k].name = "Viper"

-----------------------------------------------------------------------------
(* Spell power *)

\* Player 0 to move on turn 2 with 2 mana, Apprentice Mage (Spell Power +1)
\* on the field, able to attack, and a second Apprentice Mage, Arcane Missile
\* and Grave Caller in hand; player 1 has Militia and Apprentice Mage on the
\* field, both just played.
SpecPower ==
    /\ StartsIn({ArenaBoard(<<ApprenticeMage>>,
                            <<ApprenticeMage, ArcaneMissile, GraveCaller>>,
                            <<Militia, ApprenticeMage>>)})
    /\ [][Next]_vars

\* the creatures with 'Spell Power +1' on player p's field
Mages(p) ==
    Cardinality({k \in 1..Len(players[p].field) :
                    players[p].field[k].ability = "Spell Power +1"})

\* C35: after every call each player's spellPower is the number of creatures
\* with 'Spell Power +1' on that player's field, creature plays, token
\* summons and death sweeps included; so a damage spell played at the
\* opposing player takes the spell's amount plus the number of the caster's
\* Spell Power creatures on the field from that player's health.
C35_SpellPowerIsCount ==
    \A p \in 0..1 :
        /\ players[p].spellPower = Mages(p)
        /\ \A s \in DamageSpells(p) :
              playCard(This, p, s[1], Opponent, Omitted).g.players[Other(p)].health
                  = players[Other(p)].health
                    - (AbilityNumber(players[p].hand[s[1] + 1].ability) + Mages(p))

\* Arcane Missile, raised by player 0's Apprentice Mage, has just killed
\* player 1's Apprentice Mage: player 1 has no spell power left
C35_Witness ==
    /\ lastCall = Call("playCard", 0, TRUE, "")
    /\ players[0].spellPower = 1
    /\ players[1].spellPower = 0
    /\ Len(players[1].field) = 1
    /\ \E k \in 1..Len(players[1].graveyard) :
          players[1].graveyard[k].name = "Apprentice Mage"
    /\ \E k \in 1..Len(players[0].graveyard) :
          players[0].graveyard[k].name = "Arcane Missile"

-----------------------------------------------------------------------------
(* The match log *)

\* the games of an empty log and of a full one
SpecLog == StartsIn({NewGame, BrinkBoard}) /\ [][Next]_vars

\* what a step does to the log: the entries kept are the newest of the old
\* ones, in their order, at the head of the new log, and an entry is dropped
\* only from a log that ends full
LogKept ==
    \E dropped \in 0..Len(gameLog) :
        /\ Len(gameLog') >= Len(gameLog) - dropped
        /\ SubSeq(gameLog', 1, Len(gameLog) - dropped)
               = SubSeq(gameLog, dropped + 1, Len(gameLog))
        /\ dropped > 0 => Len(gameLog') = LogLimit

\* C36: the match log never holds more than 20 entries, and they are the
\* entries appended last, in the order they were appended: an entry appended
\* to a full log drops the oldest entry and keeps the order of the others.
C36_LogBounded ==
    /\ [](/\ Len(gameLog) <= LogLimit
          /\ addLog(This, "entry", "").gameLog
                 = (IF Len(gameLog) = LogLimit THEN Tail(gameLog) ELSE gameLog)
                   \o <<[message |-> <<"entry", "">>, turn |-> turnNumber,
                         activePlayer |-> currentTurn + 1]>>)
    /\ [][LogKept]_vars

\* Fire Sprite has just been played with the log full: the log is still full,
\* its last entry is that of the play, and its first entry is not the one
\* that was first before the play
C36_Witness ==
    /\ lastCall = Call("playCard", 0, TRUE, "")
    /\ calls = 1
    /\ Len(gameLog) = LogLimit
    /\ gameLog[LogLimit].message = <<"played", "Fire Sprite">>
    /\ gameLog[LogLimit - 1] = BrinkBoard.gameLog[LogLimit]
    /\ gameLog[1] = BrinkBoard.gameLog[2]

-----------------------------------------------------------------------------
(* The queue holds one socket at most *)

\* C37: every disconnect being handled by the disconnect handler, the queue
\* never holds the same id twice, never holds the id of a disconnected
\* socket and never holds more than one id: findMatch from a socket that is
\* not waiting, while another waits, pairs the two and leaves the queue
\* empty, and findMatch from the socket that is waiting changes nothing.
C37_QueueHoldsOne ==
    /\ Len(matchmakingQueue) <= 1
    /\ Cardinality({matchmakingQueue[k] : k \in 1..Len(matchmakingQueue)})
           = Len(matchmakingQueue)
    /\ \A k \in 1..Len(matchmakingQueue) : sockets[matchmakingQueue[k]] = "connected"
    /\ \A s \in 1..MaxSockets :
          sockets[s] = "connected" =>
              /\ Queued(Lobby, s) => findMatch(Lobby, s) = Lobby
              /\ (matchmakingQueue # <<>> /\ ~Queued(Lobby, s)) =>
                    /\ findMatch(Lobby, s).queue = <<>>
                    /\ \E k \in 1..Len(findMatch(Lobby, s).games) :
                          /\ findMatch(Lobby, s).games[k].player1.id = s
                          /\ findMatch(Lobby, s).games[k].player2.id
                                 = Head(matchmakingQueue)
                    /\ \A i \in 1..Len(findMatch(Lobby, s).outbox) :
                          findMatch(Lobby, s).outbox[i].event = "matchFound"

\* socket 1 waited and disconnected, and socket 2 has then been queued: it
\* waits alone, with socket 3 connected and no game stored
C37_Witness ==
    /\ matchmakingQueue = <<2>>
    /\ sockets = <<"gone", "connected", "connected">>
    /\ activeGames = <<>>
    /\ calls = 3
    /\ outbox = <<[to |-> 2, event |-> "searching", data |-> <<>>]>>

-----------------------------------------------------------------------------
(* Sockets and the games that bind them *)

\* the games of the lobby that bind socket s
Bindings(s) == {k \in 1..Len(activeGames) : involves(activeGames[k], s)}

\* C38: a socket is bound to one game at most, is never in the queue while
\* bound to a game, and the two sockets of a game are different; so a
\* deckSelected or a relayed action from a socket touches exactly one game.
C38_OneGamePerSocket ==
    /\ \A s \in 1..MaxSockets :
          /\ Cardinality(Bindings(s)) <= 1
          /\ Bindings(s) # {} => ~Queued(Lobby, s)
    /\ \A k \in 1..Len(activeGames) :
          activeGames[k].player1.id # activeGames[k].player2.id

-----------------------------------------------------------------------------
(* Whose turn it is *)

\* C39: playCard and processAttack are accepted only from the player whose
\* turn it is: from the other player they return false and change nothing.
C39_OnlyTheMoverActs ==
    \A p \in 0..1 :
        p # currentTurn =>
            /\ \A cardIndex \in 0..(Len(players[p].hand) - 1) :
                  \A target \in PlayTargets(p, cardIndex) :
                      /\ ~playCard(This, p, cardIndex, target, Omitted).ret
                      /\ playCard(This, p, cardIndex, target, Omitted).g.players = players
            /\ \A attackerIndex \in 0..(Len(players[p].field) - 1) :
                  \A targetIndex \in -1..(Len(players[Other(p)].field) - 1) :
                      /\ ~processAttack(This, p, attackerIndex, targetIndex).ret
                      /\ processAttack(This, p, attackerIndex, targetIndex).g.players = players

-----------------------------------------------------------------------------
(* A second initPlayerDeck *)

\* C40: a player's deck is initialized once at most: for a player who has
\* been dealt cards, every later initPlayerDeck returns false and leaves the
\* player's deck and hand and everything else as they are, also when the
\* deck has been drawn down to empty.
C40_DeckInitializedOnce ==
    \A p \in 0..1 :
        Zones(p) # <<>> =>
            \A d \in 1..Len(Decks) : \A perm \in Shuffles(Len(Decks[d])) :
                /\ ~initPlayerDeck(This, p, Decks[d], perm).ret
                /\ initPlayerDeck(This, p, Decks[d], perm).g = This
====
